---- MODULE Spec2Model ----
(***************************************************************************)
(* A model of rcli: the type-casting engine (rcli/typing.py), the typed     *)
(* binder (rcli/call.py) and the dispatcher (rcli/dispatcher.py).           *)
(*                                                                         *)
(* Text is a sequence of atoms.  An atom is one character, except that a    *)
(* literal of the program text (a fixed message) may be written as a single *)
(* atom.  Concatenation of text is concatenation of sequences.              *)
(***************************************************************************)
EXTENDS Integers, Sequences, FiniteSets

VARIABLES
    pc,          \* position of the dispatch in main, _run_command and call
    command,     \* args['<command>']: the requested subcommand name
    help_arg,    \* the first of args['<args>'] when the command is help
    log_level,   \* what _get_log_level returned
    binder,      \* the binder the dispatch uses: dispatcher's or call's
    cli_args,    \* the docopt result of the subcommand, in iteration order
    todo,        \* the (k, nk, v) triples the loop of call has yet to visit
    hints,       \* call.hints
    named_args,  \* call.named_args, or the result of dispatcher._normalize
    varargs,     \* call.varargs
    raised,      \* the exception in flight, NoExc when there is none
    bound,       \* "no", "ok" or "failed": how the binding ended
    calls,       \* the invocations of the handler, in order
    docs_parsed, \* the names of the subcommands whose usage docopt parsed
    log_files,   \* the number of log files written
    disk_ok,     \* whether open(filename, 'w') succeeds
    argv_ok,     \* whether the subcommand's argv matches its usage
    behaviour,   \* the exception the handler raises, NoExc if it returns
    result,      \* what main returned, or what escaped it
    cast_type,   \* cast(type_, value): type_
    cast_value,  \* cast(type_, value): value
    cast_out,    \* cast(type_, value): the outcome
    raw_key,     \* a raw key of a docopt result
    key_out,     \* what call._normalize and dispatcher._norm make of it
    u_doc,       \* a usage string: the argument of a function of usage.py
    u_other,     \* the usage string that is merged into u_doc
    u_width,     \* the width usage strings are wrapped to
    u_out,       \* what the function of usage.py returned
    u_again,     \* what format_usage makes of what it returned
    c_handler,   \* a handler whose source is scanned for type comments
    c_comments,  \* what _get_type_comments yielded for it
    c_hints,     \* what get_type_hints made of it
    h_command,   \* the argument of a help function
    h_out,       \* what usage.get_help_usage and dispatcher._help did with it
    s_instance,  \* _RcliConfig.__instance__: 0 for None, or the instance
    s_inits,     \* how often _RcliConfig.__init__ has run
    s_settings,  \* config.settings: 0 before the module is imported
    s_threads,   \* the threads that instantiate _RcliConfig
    g_disposition, \* what signal.getsignal(SIGTERM) returns
    g_initial,   \* the disposition when enable_logging was called
    g_disk,      \* whether a log file can be written
    g_level,     \* the level of the root logger, 0 before enable_logging
    g_stream,    \* the records in _LOGFILE_STREAM
    g_files,     \* the log files written, each the records it holds
    g_status,    \* whether the process has ended, and its exit status
    g_signals,   \* how many SIGTERMs the process has received
    k_tasks,     \* run_tasks: the tasks
    k_next,      \* the task run_tasks is at
    k_out,       \* what has been printed and shown
    k_progress,  \* pbar.n
    k_exc        \* the exception in flight in run_tasks

vars == <<pc, command, help_arg, log_level, binder, cli_args, todo, hints,
          named_args, varargs, raised, bound, calls, docs_parsed, log_files,
          disk_ok, argv_ok, behaviour, result, cast_type, cast_value,
          cast_out, raw_key, key_out, u_doc, u_other, u_width, u_out,
          u_again, c_handler, c_comments, c_hints,
          h_command, h_out, s_instance, s_inits, s_settings, s_threads,
          g_disposition, g_initial, g_disk, g_level, g_stream, g_files,
          g_status, g_signals, k_tasks, k_next, k_out, k_progress, k_exc>>

inputs == <<command, help_arg, log_level, binder, cli_args, disk_ok, argv_ok,
            behaviour>>

cast_vars == <<cast_type, cast_value, cast_out>>

key_vars == <<raw_key, key_out>>

usage_vars == <<u_doc, u_other, u_width, u_out, u_again>>

comment_vars == <<c_handler, c_comments, c_hints>>

\* The variables of the library functions that run outside a dispatch
help_vars == <<h_command, h_out>>

singleton_vars == <<s_instance, s_inits, s_settings, s_threads>>

signal_vars == <<g_disposition, g_initial, g_disk, g_level, g_stream, g_files,
                 g_status, g_signals>>

task_vars == <<k_tasks, k_next, k_out, k_progress, k_exc>>

lib_vars == <<comment_vars, help_vars, singleton_vars, signal_vars, task_vars>>

\* The variables of the pure functions that are modelled on their own
pure_vars == <<key_vars, usage_vars, lib_vars>>

\* No key is being normalised
KeyIdle == raw_key = <<>> /\ key_out = [call |-> <<>>, dispatcher |-> <<>>]

\* No usage string is being worked on
UsageIdle ==
    /\ u_doc = <<>>
    /\ u_other = <<>>
    /\ u_width = 0
    /\ u_out = <<>>
    /\ u_again = <<>>

\* No handler is being introspected
CommentIdle ==
    /\ c_handler = [params |-> <<>>, short |-> <<>>, inline |-> FALSE, note |-> <<>>]
    /\ c_comments = <<>>
    /\ c_hints = [hints |-> <<>>, raises |-> ""]

\* No help is being asked for
HelpIdle == h_command = [NoneType |-> 0] /\ h_out = <<>>

\* config is not being imported
SingletonIdle ==
    /\ s_instance = 0
    /\ s_inits = 0
    /\ s_settings = 0
    /\ s_threads = <<>>

\* No process is waiting for a signal
SignalIdle ==
    /\ g_disposition = "SIG_DFL"
    /\ g_initial = "SIG_DFL"
    /\ g_disk = TRUE
    /\ g_level = 0
    /\ g_stream = <<>>
    /\ g_files = <<>>
    /\ g_status = [exited |-> FALSE, code |-> 0]
    /\ g_signals = 0

\* No tasks are being run
TaskIdle ==
    /\ k_tasks = <<>>
    /\ k_next = 0
    /\ k_out = <<>>
    /\ k_progress = 0
    /\ k_exc = [kind |-> "", msg |-> <<>>, exc |-> ""]

LibIdle == CommentIdle /\ HelpIdle /\ SingletonIdle /\ SignalIdle /\ TaskIdle

PureIdle == KeyIdle /\ UsageIdle /\ LibIdle

(***************************************************************************)
(* Bounds of the model.                                                     *)
(***************************************************************************)
MaxRawLen == 3      \* longest raw list handed to cast
MaxVarargs == 2     \* longest list docopt collects for a repeated argument

(***************************************************************************)
(* Python values.  A value is a record with one field, named after its  *)
(* Python type, that holds the payload: values of different types differ in *)
(* their field and never in payloads of different shapes.                   *)
(***************************************************************************)
StrV(s) == [str |-> s]
IntV(n) == [int |-> n]
BoolV(b) == [bool |-> b]
NoneV == [NoneType |-> 0]
BytesV(s) == [bytes |-> s]
ListV(s) == [list |-> s]
TupleV(s) == [tuple |-> s]
SetV(S) == [set |-> S]
FrozenSetV(S) == [frozenset |-> S]
DequeV(s) == [deque |-> s]
CounterV(f) == [Counter |-> f]

TypeOf(x) == CHOOSE f \in DOMAIN x : TRUE

Val(x) == x[TypeOf(x)]

Range(s) == {s[i] : i \in DOMAIN s}

\* collections.Counter(iterable): element -> number of occurrences
CountOf(s) == [e \in Range(s) |-> Cardinality({i \in DOMAIN s : s[i] = e})]

(***************************************************************************)
(* Outcomes of an evaluation: a value, or a raised exception.               *)
(***************************************************************************)
NoType == [k |-> "none", name |-> "", args |-> <<>>, flag |-> FALSE]

Ok(x) == [ok |-> TRUE, val |-> x, exc |-> "", type_ |-> NoType,
          value |-> NoneV]

Raise(e, typ, x) == [ok |-> FALSE, val |-> NoneV, exc |-> e, type_ |-> typ,
                     value |-> x]

(***************************************************************************)
(* Type hints.  k is the shape of the hint, name its Python name, args its  *)
(* __args__ and flag its __tuple_use_ellipsis__.                            *)
(***************************************************************************)
Hint(k, name, args, flag) == [k |-> k, name |-> name, args |-> args,
                              flag |-> flag]

Any == Hint("Any", "Any", <<>>, FALSE)
NoneType == Hint("NoneType", "NoneType", <<>>, FALSE)
ByteString == Hint("ByteString", "ByteString", <<>>, FALSE)
Ellipsis == Hint("Ellipsis", "Ellipsis", <<>>, FALSE)
int == Hint("class", "int", <<>>, FALSE)
str == Hint("class", "str", <<>>, FALSE)
Function(name) == Hint("function", name, <<>>, FALSE)
Union(args) == Hint("Union", "Union", args, FALSE)
Tuple(args) == Hint("tuple", "Tuple", args, FALSE)
SeqType(name, args) == Hint("seq", name, args, FALSE)

(***************************************************************************)
(* Python built-ins the casting engine relies on.                           *)
(***************************************************************************)
Digits == <<"0", "1", "2", "3", "4", "5", "6", "7", "8", "9">>

IsDigit(c) == c \in Range(Digits)

DigitVal(c) == (CHOOSE i \in DOMAIN Digits : Digits[i] = c) - 1

RECURSIVE NatOf(_)
NatOf(s) ==
    IF s = <<>> THEN 0
    ELSE 10 * NatOf(SubSeq(s, 1, Len(s) - 1)) + DigitVal(s[Len(s)])

AllDigits(s) == s # <<>> /\ \A i \in DOMAIN s : IsDigit(s[i])

RECURSIVE NatText(_)
NatText(n) ==
    IF n < 10 THEN <<Digits[n + 1]>>
    ELSE NatText(n \div 10) \o <<Digits[(n % 10) + 1]>>

IntText(n) == IF n < 0 THEN <<"-">> \o NatText(-n) ELSE NatText(n)

RECURSIVE Join(_, _)
Join(sep, parts) ==
    IF parts = <<>> THEN <<>>
    ELSE IF Len(parts) = 1 THEN parts[1]
    ELSE parts[1] \o sep \o Join(sep, Tail(parts))

\* repr(value) and str(value), for the values docopt and the casts produce
RECURSIVE Repr(_)
Repr(x) ==
    CASE TypeOf(x) = "str" -> <<"'">> \o Val(x) \o <<"'">>
      [] TypeOf(x) = "int" -> IntText(Val(x))
      [] TypeOf(x) = "bool" -> IF Val(x) THEN <<"T", "r", "u", "e">>
                         ELSE <<"F", "a", "l", "s", "e">>
      [] TypeOf(x) = "NoneType" -> <<"N", "o", "n", "e">>
      [] TypeOf(x) = "list" ->
            <<"[">> \o Join(<<",", " ">>, [i \in DOMAIN Val(x) |-> Repr(Val(x)[i])])
                    \o <<"]">>
      [] OTHER -> <<"<", TypeOf(x), ">">>

Format(x) == IF TypeOf(x) = "str" THEN Val(x) ELSE Repr(x)

\* iter(value): the items a for loop visits, when value is iterable
Iterable(x) == TypeOf(x) \in {"str", "list", "tuple", "deque"}

Items(x) ==
    IF TypeOf(x) = "str" THEN [i \in DOMAIN Val(x) |-> StrV(<<Val(x)[i]>>)] ELSE Val(x)

\* int(value)
IntCtor(x) ==
    CASE TypeOf(x) = "int" -> Ok(x)
      [] TypeOf(x) = "bool" -> Ok(IntV(IF Val(x) THEN 1 ELSE 0))
      [] TypeOf(x) = "str" ->
            IF AllDigits(Val(x)) THEN Ok(IntV(NatOf(Val(x))))
            ELSE IF Len(Val(x)) > 1 /\ Val(x)[1] \in {"-", "+"} /\ AllDigits(Tail(Val(x)))
                 THEN Ok(IntV(IF Val(x)[1] = "-" THEN -NatOf(Tail(Val(x)))
                              ELSE NatOf(Tail(Val(x)))))
            ELSE Raise("ValueError", int, x)
      [] OTHER -> Raise("TypeError", int, x)

\* The user functions used as type hints: a mapping's lookup (KeyError for a
\* missing key), len (TypeError for a value without a length) and a parser
\* that rejects everything (ValueError).
Lookup(x) ==
    IF TypeOf(x) = "list" THEN Raise("TypeError", Function("lookup"), x)
    ELSE IF x = StrV(<<"1">>) THEN Ok(StrV(<<"o", "n", "e">>))
    ELSE Raise("KeyError", Function("lookup"), x)

LenFn(x) ==
    IF TypeOf(x) \in {"str", "list"} THEN Ok(IntV(Len(Val(x))))
    ELSE Raise("TypeError", Function("len"), x)

\* typ(value): the call cast makes on each of its cast types
Construct(typ, x) ==
    CASE typ.k = "class" /\ typ.name = "int" -> IntCtor(x)
      [] typ.k = "class" /\ typ.name = "str" -> Ok(StrV(Format(x)))
      [] typ.k = "function" /\ typ.name = "lookup" -> Lookup(x)
      [] typ.k = "function" /\ typ.name = "len" -> LenFn(x)
      [] typ.k = "function" /\ typ.name = "reject" ->
            Raise("ValueError", typ, x)
      [] OTHER -> Raise("TypeError", typ, x)

(***************************************************************************)
(* rcli/typing.py: cast and its helpers.                                    *)
(***************************************************************************)
\* The index of the first outcome of rs that is an exception, 0 if none
FirstRaise(rs) ==
    IF \A i \in DOMAIN rs : rs[i].ok THEN 0
    ELSE CHOOSE i \in DOMAIN rs :
            ~rs[i].ok /\ \A j \in DOMAIN rs : j < i => rs[j].ok

\* A list comprehension [f(v) for v in ...] whose items evaluated to rs: the
\* list of the values, or the first exception raised
Comprehension(rs) ==
    IF FirstRaise(rs) = 0 THEN Ok(ListV([i \in DOMAIN rs |-> rs[i].val]))
    ELSE rs[FirstRaise(rs)]

\* callable(type_)
Callable(type_) == type_.k \in {"class", "function", "seq", "tuple"}

\* isinstance(type_, type) and any(issubclass(type_, typ) for typ in
\* _SEQUENCE_TYPES)
IsSequenceType(type_) == type_.k \in {"seq", "tuple"}

\* A variant of _get_cast_types that lists the constraints last to first
_get_cast_types_reversed(type_) ==
    LET n == Len(type_.args)
    IN  (IF Callable(type_) THEN <<type_>> ELSE <<>>)
            \o (IF type_.k \in {"TypeVar", "Union"}
                THEN [i \in 1..n |-> type_.args[n + 1 - i]] ELSE <<>>)

_get_cast_types(type_) ==
    (IF Callable(type_) THEN <<type_>> ELSE <<>>)
        \o (IF type_.k = "TypeVar" THEN type_.args ELSE <<>>)
        \o (IF type_.k = "Union" THEN type_.args ELSE <<>>)

\* The loop of cast over its cast types: the first call that does not raise
\* TypeError or ValueError ends it, with its value or with its exception.
RECURSIVE TryCastTypes(_, _, _)
TryCastTypes(types, type_, value) ==
    IF types = <<>> THEN Raise("CastError", type_, value)
    ELSE LET r == Construct(types[1], value)
         IN  IF ~r.ok /\ r.exc \in {"TypeError", "ValueError"}
             THEN TryCastTypes(Tail(types), type_, value)
             ELSE r

RECURSIVE cast(_, _)

\* A variant of _cast_tuple without the comparison of the two lengths: the
\* zip stops at the shorter of the types and the values
_cast_tuple_unchecked(type_, values) ==
    LET tuple_types == type_.args
    IN  IF ~Iterable(values) THEN Raise("TypeError", type_, values)
        ELSE IF tuple_types = <<>> THEN Ok(TupleV(Items(values)))
        ELSE IF \/ Len(tuple_types) = 2 /\ tuple_types[2] = Ellipsis
                \/ Len(tuple_types) = 1 /\ type_.flag
        THEN LET r == Comprehension(
                        [i \in DOMAIN Items(values) |->
                            cast(tuple_types[1], Items(values)[i])])
             IN  IF r.ok THEN Ok(TupleV(Val(r.val))) ELSE r
        ELSE LET n == IF Len(Items(values)) < Len(tuple_types)
                      THEN Len(Items(values)) ELSE Len(tuple_types)
                 r == Comprehension(
                        [i \in 1..n |-> cast(tuple_types[i], Items(values)[i])])
             IN  IF r.ok THEN Ok(TupleV(Val(r.val))) ELSE r

\* A variant of _cast_tuple that does not recognise the Ellipsis: every
\* parametrised tuple has a fixed arity
_cast_tuple_fixed(type_, values) ==
    LET tuple_types == type_.args
    IN  IF ~Iterable(values) THEN Raise("TypeError", type_, values)
        ELSE IF tuple_types = <<>> THEN Ok(TupleV(Items(values)))
        ELSE IF Len(Items(values)) # Len(tuple_types)
        THEN Raise("CastError", type_, values)
        ELSE LET r == Comprehension(
                        [i \in DOMAIN tuple_types |->
                            cast(tuple_types[i], Items(values)[i])])
             IN  IF r.ok THEN Ok(TupleV(Val(r.val))) ELSE r

_cast_tuple(type_, values) ==
    LET tuple_types == type_.args
    IN  IF tuple_types # <<>>
        THEN IF \/ Len(tuple_types) = 2 /\ tuple_types[2] = Ellipsis
                \/ Len(tuple_types) = 1 /\ type_.flag
             THEN IF ~Iterable(values) THEN Raise("TypeError", type_, values)
                  ELSE LET r == Comprehension(
                                  [i \in DOMAIN Items(values) |->
                                      cast(tuple_types[1], Items(values)[i])])
                       IN  IF r.ok THEN Ok(TupleV(Val(r.val))) ELSE r
             ELSE IF ~Iterable(values) THEN Raise("TypeError", type_, values)
             ELSE IF Len(Items(values)) # Len(tuple_types)
             THEN Raise("CastError", type_, values)
             ELSE LET r == Comprehension(
                             [i \in DOMAIN tuple_types |->
                                 cast(tuple_types[i], Items(values)[i])])
                  IN  IF r.ok THEN Ok(TupleV(Val(r.val))) ELSE r
        ELSE IF ~Iterable(values) THEN Raise("TypeError", type_, values)
        ELSE Ok(TupleV(Items(values)))

\* A variant of Collect that returns a list whatever the kind
Collect_list(type_, value) ==
    IF Iterable(value) THEN Ok(ListV(Items(value)))
    ELSE Raise("TypeError", type_, value)

\* The container _cast_sequence builds from the (cast) value
Collect(type_, value) ==
    CASE type_.name \in {"set", "Set", "MutableSet"} ->
            IF Iterable(value) THEN Ok(SetV(Range(Items(value))))
            ELSE Raise("TypeError", type_, value)
      [] type_.name \in {"frozenset", "FrozenSet"} ->
            IF Iterable(value) THEN Ok(FrozenSetV(Range(Items(value))))
            ELSE Raise("TypeError", type_, value)
      [] type_.name \in {"deque", "Deque"} ->
            IF Iterable(value) THEN Ok(DequeV(Items(value)))
            ELSE Raise("TypeError", type_, value)
      [] type_.name = "Counter" ->
            IF Iterable(value) THEN Ok(CounterV(CountOf(Items(value))))
            ELSE IF value = NoneV THEN Ok(CounterV(CountOf(<<>>)))
            ELSE Raise("TypeError", type_, value)
      [] OTHER ->
            IF Iterable(value) THEN Ok(ListV(Items(value)))
            ELSE Raise("TypeError", type_, value)

_cast_sequence(type_, value) ==
    IF type_.k = "tuple" THEN _cast_tuple(type_, value)
    ELSE IF type_.args # <<>>
    THEN IF ~Iterable(value) THEN Raise("TypeError", type_, value)
         ELSE LET r == Comprehension(
                         [i \in DOMAIN Items(value) |->
                             cast(type_.args[1], Items(value)[i])])
              IN  IF r.ok THEN Collect(type_, r.val) ELSE r
    ELSE Collect(type_, value)

cast(type_, value) ==
    IF type_ = NoneType THEN Raise("AssertionError", type_, value)
    ELSE IF type_ = Any THEN Ok(value)
    ELSE IF type_ = ByteString
    THEN IF TypeOf(value) = "str" THEN Ok(BytesV(Val(value)))
         ELSE Raise("AttributeError", type_, value)
    ELSE IF IsSequenceType(type_) THEN _cast_sequence(type_, value)
    ELSE TryCastTypes(_get_cast_types(type_), type_, value)

(***************************************************************************)
(* The inputs of the casting engine: the raw values docopt produces (a      *)
(* string, a list of strings, a flag, None) and a family of type hints.     *)
(***************************************************************************)
RawStrings == {<<"1">>, <<"2">>, <<"1", "2">>, <<"a", "b", "c">>}

RawLists == UNION {[1..n -> {StrV(s) : s \in RawStrings}] : n \in 0..MaxRawLen}

RawValues ==
    {StrV(s) : s \in RawStrings} \cup {ListV(l) : l \in RawLists}
        \cup {NoneV, BoolV(TRUE), BoolV(FALSE)}

bytes == Hint("class", "bytes", <<>>, FALSE)
AnyStr == Hint("TypeVar", "AnyStr", <<str, bytes>>, FALSE)
Optional(type_) == Union(<<type_, NoneType>>)

ScalarTypes ==
    {Any, ByteString, int, str, AnyStr, Function("lookup"), Function("len"),
     Function("reject")}

UnionTypes ==
    {Union(<<int, str>>), Union(<<str, int>>), Optional(int), Optional(str),
     Union(<<int, Function("reject")>>), Union(<<Function("len"), int>>),
     Union(<<SeqType("List", <<int>>), str>>),
     Union(<<Function("lookup"), str>>)}

SequenceTypes ==
    {SeqType("list", <<>>), SeqType("List", <<int>>), SeqType("List", <<str>>),
     SeqType("MutableSequence", <<int>>), SeqType("set", <<>>),
     SeqType("Set", <<int>>), SeqType("MutableSet", <<int>>),
     SeqType("frozenset", <<>>), SeqType("FrozenSet", <<int>>),
     SeqType("deque", <<>>), SeqType("Deque", <<int>>),
     SeqType("Counter", <<>>), SeqType("Counter", <<int>>),
     SeqType("List", <<Union(<<int, str>>)>>),
     SeqType("List", <<Tuple(<<int, int>>)>>)}

TupleTypes ==
    {Hint("tuple", "tuple", <<>>, FALSE), Tuple(<<>>), Tuple(<<int>>),
     Tuple(<<str>>), Tuple(<<int, int>>), Tuple(<<int, str>>),
     Tuple(<<str, int, int>>), Tuple(<<int, Ellipsis>>),
     Tuple(<<str, Ellipsis>>), Hint("tuple", "Tuple", <<int>>, TRUE),
     Tuple(<<Union(<<int, str>>), Ellipsis>>)}

CastTypes == ScalarTypes \cup UnionTypes \cup SequenceTypes \cup TupleTypes

NoOutcome == Raise("", NoType, NoneV)

NoExc == [exc |-> "", msg |-> <<>>]

NoResult == [how |-> "running", kind |-> "", text |-> <<>>]

EmptyDict == [x \in {} |-> NoneV]

(***************************************************************************)
(* The casting engine on its own: one call of cast on any input.            *)
(***************************************************************************)
CastInit ==
    /\ pc = "cast"
    /\ cast_type \in CastTypes
    /\ cast_value \in RawValues
    /\ cast_out = NoOutcome
    /\ command = <<>>
    /\ help_arg = NoneV
    /\ log_level = NoneV
    /\ binder = "call"
    /\ cli_args = <<>>
    /\ todo = <<>>
    /\ hints = EmptyDict
    /\ named_args = EmptyDict
    /\ varargs = TupleV(<<>>)
    /\ raised = NoExc
    /\ bound = "no"
    /\ calls = <<>>
    /\ docs_parsed = <<>>
    /\ log_files = 0
    /\ disk_ok = TRUE
    /\ argv_ok = TRUE
    /\ behaviour = NoExc
    /\ result = NoResult
    /\ PureIdle

Cast ==
    /\ pc = "cast"
    /\ cast_out' = cast(cast_type, cast_value)
    /\ pc' = "cast_done"
    /\ UNCHANGED <<pure_vars, inputs, todo, hints, named_args, varargs, raised, bound,
                   calls, docs_parsed, log_files, result, cast_type,
                   cast_value>>

CastNext == Cast

CastSpec == CastInit /\ [][CastNext]_vars

(***************************************************************************)
(* The casting engine: properties.                                          *)
(***************************************************************************)
abc == <<"a", "b", "c">>

\* The tuple hints whose single element type repeats
IsVariadic(type_) ==
    \/ Len(type_.args) = 2 /\ type_.args[2] = Ellipsis
    \/ Len(type_.args) = 1 /\ type_.flag

\* A constraint fails on a value when calling it raises TypeError or ValueError
Fails(typ, x) ==
    ~Construct(typ, x).ok /\ Construct(typ, x).exc \in {"TypeError", "ValueError"}

C7_FixedTuple ==
    (/\ pc = "cast_done"
     /\ cast_type.k = "tuple"
     /\ Len(cast_type.args) >= 1
     /\ ~IsVariadic(cast_type)
     /\ TypeOf(cast_value) = "list") =>
        LET tt == cast_type.args
            raw == Val(cast_value)
        IN  IF Len(raw) = Len(tt)
            THEN IF \A i \in DOMAIN tt : cast(tt[i], raw[i]).ok
                 THEN /\ cast_out.ok
                      /\ TypeOf(cast_out.val) = "tuple"
                      /\ Len(Val(cast_out.val)) = Len(tt)
                      /\ \A i \in DOMAIN tt :
                            Val(cast_out.val)[i] = cast(tt[i], raw[i]).val
                 ELSE ~cast_out.ok
            ELSE cast_out = Raise("CastError", cast_type, cast_value)

C7_Witness ==
    /\ pc = "cast_done"
    /\ cast_type = Tuple(<<int, str>>)
    /\ cast_value = ListV(<<StrV(<<"1", "2">>), StrV(abc)>>)
    /\ cast_out = Ok(TupleV(<<IntV(12), StrV(abc)>>))

\* C8: cast on a variadic Tuple over a raw list casts every item with the
\* repeating element type and returns the results as a tuple of the same
\* length and order, for a list of any length, zero included; a failure on
\* any item fails the whole cast.
C8_VariadicTuple ==
    (/\ pc = "cast_done"
     /\ cast_type.k = "tuple"
     /\ IsVariadic(cast_type)
     /\ TypeOf(cast_value) = "list") =>
        LET typ == cast_type.args[1]
            raw == Val(cast_value)
        IN  IF \A i \in DOMAIN raw : cast(typ, raw[i]).ok
            THEN /\ cast_out.ok
                 /\ TypeOf(cast_out.val) = "tuple"
                 /\ Len(Val(cast_out.val)) = Len(raw)
                 /\ \A i \in DOMAIN raw :
                        Val(cast_out.val)[i] = cast(typ, raw[i]).val
            ELSE ~cast_out.ok

C8_Witness ==
    /\ pc = "cast_done"
    /\ cast_type = Tuple(<<int, Ellipsis>>)
    /\ cast_value = ListV(<<StrV(<<"1">>), StrV(<<"2">>), StrV(<<"1", "2">>)>>)
    /\ cast_out = Ok(TupleV(<<IntV(1), IntV(2), IntV(12)>>))

\* C9: cast on a Sequence hint over a raw list casts each item on its own
\* with the element type and collects the results into the declared kind: a
\* list or deque keeps every item in order, duplicates included; a set or
\* frozenset holds each distinct value once; a Counter maps each distinct
\* value to its number of occurrences.
C9_SequenceKinds ==
    (/\ pc = "cast_done"
     /\ cast_type.k = "seq"
     /\ TypeOf(cast_value) = "list") =>
        LET raw == Val(cast_value)
            el(i) == IF cast_type.args # <<>>
                     THEN cast(cast_type.args[1], raw[i]) ELSE Ok(raw[i])
            vals == [i \in DOMAIN raw |-> el(i).val]
            out == cast_out.val
        IN  IF \A i \in DOMAIN raw : el(i).ok
            THEN /\ cast_out.ok
                 /\ CASE cast_type.name \in {"list", "List", "MutableSequence"}
                            -> out = ListV(vals)
                      [] cast_type.name \in {"deque", "Deque"}
                            -> out = DequeV(vals)
                      [] cast_type.name \in {"set", "Set", "MutableSet"}
                            -> out = SetV({vals[i] : i \in DOMAIN vals})
                      [] cast_type.name \in {"frozenset", "FrozenSet"}
                            -> out = FrozenSetV({vals[i] : i \in DOMAIN vals})
                      [] cast_type.name = "Counter"
                            -> /\ TypeOf(out) = "Counter"
                               /\ DOMAIN Val(out) = {vals[i] : i \in DOMAIN vals}
                               /\ \A e \in DOMAIN Val(out) :
                                    Val(out)[e] = Cardinality(
                                        {i \in DOMAIN vals : vals[i] = e})
            ELSE ~cast_out.ok

C9_Witness ==
    /\ pc = "cast_done"
    /\ cast_type = SeqType("Counter", <<int>>)
    /\ cast_value = ListV(<<StrV(<<"2">>), StrV(<<"1">>), StrV(<<"2">>)>>)
    /\ cast_out.ok
    /\ Val(cast_out.val)[IntV(2)] = 2
    /\ Val(cast_out.val)[IntV(1)] = 1

\* C10: cast on a Sequence hint over a raw value that is a single string
\* treats the string as one item: the result is a collection of the declared
\* kind that holds the cast of the whole string and nothing else.
C10_StringIsOneElement ==
    (/\ pc = "cast_done"
     /\ cast_type.k = "seq"
     /\ TypeOf(cast_value) = "str") =>
        LET e == IF cast_type.args # <<>>
                 THEN cast(cast_type.args[1], cast_value) ELSE Ok(cast_value)
            out == cast_out.val
        IN  e.ok =>
                /\ cast_out.ok
                /\ CASE TypeOf(out) \in {"list", "deque"} -> Val(out) = <<e.val>>
                     [] TypeOf(out) \in {"set", "frozenset"} -> Val(out) = {e.val}
                     [] TypeOf(out) = "Counter" ->
                            /\ DOMAIN Val(out) = {e.val}
                            /\ Val(out)[e.val] = 1
                     [] OTHER -> FALSE

(***************************************************************************)
(* rcli/call.py: the normalisation of the docopt keys.                      *)
(***************************************************************************)
LowerLetters == <<"a", "b", "c", "d", "e", "f", "g", "h", "i", "j", "k", "l",
                  "m", "n", "o", "p", "q", "r", "s", "t", "u", "v", "w", "x",
                  "y", "z">>

UpperLetters == <<"A", "B", "C", "D", "E", "F", "G", "H", "I", "J", "K", "L",
                  "M", "N", "O", "P", "Q", "R", "S", "T", "U", "V", "W", "X",
                  "Y", "Z">>

\* str.lower, on one character
Lower(c) ==
    IF c \in Range(UpperLetters)
    THEN LowerLetters[CHOOSE i \in DOMAIN UpperLetters : UpperLetters[i] = c]
    ELSE c

\* The characters the regular expression class \w matches
IsWord(c) ==
    c \in Range(LowerLetters) \cup Range(UpperLetters) \cup Range(Digits)
            \cup {"_"}

\* re.sub(r'\W|^(?=\d)', '_', k)
SubNonWord(k) ==
    (IF k # <<>> /\ IsDigit(k[1]) THEN <<"_">> ELSE <<>>)
        \o [i \in DOMAIN k |-> IF IsWord(k[i]) THEN k[i] ELSE "_"]

\* str.strip('_')
RECURSIVE LStrip(_)
LStrip(k) == IF k # <<>> /\ k[1] = "_" THEN LStrip(Tail(k)) ELSE k

RECURSIVE RStrip(_)
RStrip(k) ==
    IF k # <<>> /\ k[Len(k)] = "_" THEN RStrip(SubSeq(k, 1, Len(k) - 1))
    ELSE k

Strip(k) == RStrip(LStrip(k))

\* keyword.iskeyword and dir(builtins): the names among them that the keys
\* of the model can normalise to
Keywords == {<<"i", "n">>, <<"i", "f">>, <<"a", "s">>, <<"a", "n", "d">>}

Builtins == {<<"i", "d">>, <<"a", "l", "l">>, <<"i", "n", "t">>,
             <<"s", "t", "r">>}

\* The normalised key call._normalize yields for the key k
NormalizedKey(k) ==
    LET nk == [i \in DOMAIN Strip(SubNonWord(k)) |->
                    Lower(Strip(SubNonWord(k))[i])]
    IN  IF nk \in Keywords \/ nk \in Builtins THEN nk \o <<"_">> ELSE nk

\* call._normalize: the (k, nk, v) triples of the docopt result
_normalize(args) ==
    [i \in DOMAIN args |->
        [k |-> args[i].k, nk |-> NormalizedKey(args[i].k), v |-> args[i].v]]

(***************************************************************************)
(* rcli/dispatcher.py: _normalize, the binder of _run_command.              *)
(***************************************************************************)
StartsWith(k, prefix) ==
    Len(k) >= Len(prefix) /\ SubSeq(k, 1, Len(prefix)) = prefix

_norm(k) ==
    LET k1 == IF StartsWith(k, <<"-", "-">>) THEN SubSeq(k, 3, Len(k)) ELSE k
        k2 == IF StartsWith(k1, <<"-">>) THEN Tail(k1) ELSE k1
        k3 == IF k2 # <<>> /\ k2[1] = "<" /\ k2[Len(k2)] = ">"
              THEN SubSeq(k2, 2, Len(k2) - 1) ELSE k2
    IN  [i \in DOMAIN k3 |-> IF Lower(k3[i]) = "-" THEN "_" ELSE Lower(k3[i])]

Put(dict, key, x) ==
    [n \in DOMAIN dict \cup {key} |-> IF n = key THEN x ELSE dict[n]]

\* The loop of dispatcher._normalize over the items of cli_args, from the
\* state acc = [args, multi_args]
RECURSIVE NormalizeLoop(_, _, _)
NormalizeLoop(params, items, acc) ==
    IF items = <<>> THEN acc
    ELSE LET nk == _norm(items[1].k)
             v == items[1].v
             next ==
                IF nk \notin Range(params) THEN acc
                ELSE IF nk \notin DOMAIN acc.args \/ acc.args[nk] = NoneV
                THEN [acc EXCEPT !.args = Put(acc.args, nk, v)]
                ELSE IF nk \in acc.multi_args /\ v # NoneV
                THEN [acc EXCEPT !.args =
                        Put(acc.args, nk, ListV(Append(Val(acc.args[nk]), v)))]
                ELSE IF v # NoneV
                THEN [args |-> Put(acc.args, nk, ListV(<<acc.args[nk], v>>)),
                      multi_args |-> acc.multi_args \cup {nk}]
                ELSE acc
         IN  NormalizeLoop(params, Tail(items), next)

\* A variant of dispatcher._normalize that keeps the last value that is not
\* None instead of collecting the values in a list
dispatcher_normalize_last(params, args) ==
    LET names == {_norm(args[i].k) : i \in DOMAIN args} \cap Range(params)
        last(nk) ==
            LET at == {i \in DOMAIN args :
                            _norm(args[i].k) = nk /\ args[i].v # NoneV}
            IN  IF at = {} THEN NoneV
                ELSE args[CHOOSE i \in at : \A j \in at : j <= i].v
    IN  [nk \in names |-> last(nk)]

dispatcher_normalize(params, args) ==
    NormalizeLoop(params, args, [args |-> EmptyDict, multi_args |-> {}]).args

(***************************************************************************)
(* The exceptions of rcli/exceptions.py and the texts of the dispatcher.    *)
(***************************************************************************)
Exc(kind, text) == [exc |-> kind, msg |-> text]

InvalidCliValueError(parameter, value, valid_values) ==
    Exc("InvalidCliValueError",
        <<"Invalid value \"">> \o Format(value) \o <<"\" supplied to ">>
            \o parameter \o <<".">>
            \o (IF valid_values # <<>>
                THEN <<" Valid options are: ">>
                        \o Join(<<",", " ">>, valid_values)
                ELSE <<>>))

LogLevels == <<<<"DEBUG">>, <<"INFO">>, <<"WARN">>, <<"ERROR">>>>

InvalidLogLevelError(level) ==
    [InvalidCliValueError(<<"--log-level">>, level, LogLevels)
        EXCEPT !.exc = "InvalidLogLevelError"]

\* A variant of the except clause that takes InvalidCliValueError itself and
\* none of its subclasses
IsInvalidCliValue_exact(e) == e.exc = "InvalidCliValueError"

\* isinstance(e, exc.InvalidCliValueError)
IsInvalidCliValue(e) ==
    e.exc \in {"InvalidCliValueError", "InvalidLogLevelError"}

\* isinstance(e, Exception): every exception but those that derive from
\* BaseException alone
IsException(e) == e.exc \notin {"", "SystemExit", "KeyboardInterrupt"}

\* The exception a raising outcome of cast stands for, with its str()
ExcOf(out) ==
    Exc(out.exc,
        CASE out.exc = "KeyError" -> Repr(out.value)
          [] out.exc = "AssertionError" -> <<>>
          [] out.exc = "AttributeError" -> <<"object has no attribute 'encode'">>
          [] OTHER -> <<"Unable to cast \"">> \o Format(out.value)
                        \o <<"\" to ", out.type_.name, ".">>)

_COMMAND == <<"s", "a", "y">>

CancelText == <<"Cancelling at the user's request.">>

LogNotice == <<"Please see the log file for more information.">>

NoLogNotice == <<"Unable to write log file.">>

Returned(kind, text) == [how |-> "returned", kind |-> kind, text |-> text]

Escaped(e) == [how |-> "escaped", kind |-> e.exc, text |-> e.msg]

\* A variant of _handle_unexpected_exception that ends the message with a
\* line break whether or not there is a message
_handle_unexpected_exception_nl(e, can_write) ==
    Returned("str", e.msg \o <<"\n">>
                        \o (IF can_write THEN LogNotice ELSE NoLogNotice))

\* dispatcher._handle_unexpected_exception: the text returned
_handle_unexpected_exception(e, can_write) ==
    Returned("str", (IF e.msg # <<>> THEN e.msg \o <<"\n">> ELSE <<>>)
                        \o (IF can_write THEN LogNotice ELSE NoLogNotice))

(***************************************************************************)
(* The registry _SUBCOMMANDS.  A subcommand is described by what the        *)
(* introspection of its callable returns: whether it is an instance with a  *)
(* __call__ method, its named parameters, its *args and **kwargs names, its *)
(* type hints, and the keys of its usage with the values docopt can give.   *)
(***************************************************************************)
NoName == <<"None">>

t_hello == <<"h", "e", "l", "l", "o">>
t_types == <<"t", "y", "p", "e", "s">>
t_pair == <<"p", "a", "i", "r">>
t_pos == <<"p", "o", "s">>
t_kw == <<"k", "w">>
t_obj == <<"o", "b", "j">>
t_look == <<"l", "o", "o", "k">>
t_greet == <<"g", "r", "e", "e", "t">>
t_me == <<"m", "e">>
t_opts == <<"o", "p", "t", "s">>
t_bye == <<"b", "y", "e">>
t_help == <<"h", "e", "l", "p">>
t_name == <<"n", "a", "m", "e">>
t_value == <<"v", "a", "l", "u", "e">>
t_key == <<"k", "e", "y">>
t_a == <<"a">>
t_b == <<"b">>
t_x == <<"x">>
t_args == <<"a", "r", "g", "s">>
t_kwargs == <<"k", "w", "a", "r", "g", "s">>
t_self == <<"s", "e", "l", "f">>

Positional(name) == <<"<">> \o name \o <<">">>

DispatchStrings == {StrV(<<"1">>), StrV(<<"a", "b", "c">>)}

DispatchLists ==
    {ListV(l) : l \in UNION {[1..n -> DispatchStrings] : n \in 0..MaxVarargs}}

Key(k, vs) == [k |-> k, vs |-> vs]

Dict(keys, values) == [n \in Range(keys) |->
                        values[CHOOSE i \in DOMAIN keys : keys[i] = n]]

Subcommand(name, self, args, varargs_, varkw, hints_, usage) ==
    [name |-> name, self |-> self, args |-> args, varargs |-> varargs_,
     varkw |-> varkw, hints |-> hints_, usage |-> usage]

Subcommands ==
    {Subcommand(t_hello, FALSE, <<t_name>>, NoName, NoName, EmptyDict,
        <<Key(t_hello, {BoolV(TRUE)}),
          Key(Positional(t_name), DispatchStrings)>>),
     Subcommand(t_types, FALSE, <<t_value>>, NoName, NoName,
        Dict(<<t_value>>, <<int>>),
        <<Key(t_types, {BoolV(TRUE)}),
          Key(Positional(t_value), DispatchStrings)>>),
     Subcommand(t_pair, FALSE, <<t_a, t_b>>, NoName, NoName,
        Dict(<<t_a, t_b>>, <<int, int>>),
        <<Key(t_pair, {BoolV(TRUE)}), Key(Positional(t_a), DispatchStrings),
          Key(Positional(t_b), DispatchStrings)>>),
     Subcommand(t_pos, FALSE, <<>>, t_args, NoName,
        Dict(<<t_args>>, <<int>>),
        <<Key(t_pos, {BoolV(TRUE)}),
          Key(Positional(t_args), DispatchLists)>>),
     Subcommand(t_kw, FALSE, <<>>, NoName, t_kwargs,
        Dict(<<t_kwargs>>, <<int>>),
        <<Key(t_kw, {BoolV(TRUE)}), Key(Positional(t_x), DispatchStrings)>>),
     Subcommand(t_opts, FALSE, <<>>, NoName, t_kwargs, EmptyDict,
        <<Key(t_opts, {BoolV(TRUE)}),
          Key(<<"-", "-">> \o t_x, {NoneV, StrV(<<"1">>)})>>),
     Subcommand(t_obj, TRUE, <<t_name>>, NoName, NoName, EmptyDict,
        <<Key(t_obj, {BoolV(TRUE)}),
          Key(Positional(t_name), DispatchStrings)>>),
     Subcommand(t_me, TRUE, <<t_name>>, NoName, NoName, EmptyDict,
        <<Key(t_me, {BoolV(TRUE)}),
          Key(Positional(t_name), DispatchStrings),
          Key(<<"-", "-">> \o t_self, {BoolV(FALSE), BoolV(TRUE)})>>),
     Subcommand(t_greet, FALSE, <<t_name>>, NoName, NoName, EmptyDict,
        <<Key(t_greet, {BoolV(TRUE)}),
          Key(<<"-", "-">> \o t_name, {NoneV, StrV(<<"1">>)}),
          Key(Positional(t_name), {NoneV, StrV(<<"a", "b", "c">>)}),
          Key(<<"N", "A", "M", "E">>, {NoneV, StrV(<<"2">>)})>>),
     Subcommand(t_look, FALSE, <<t_key>>, NoName, NoName,
        Dict(<<t_key>>, <<Function("lookup")>>),
        <<Key(t_look, {BoolV(TRUE)}),
          Key(Positional(t_key), DispatchStrings)>>)}

\* _SUBCOMMANDS
_SUBCOMMANDS == [n \in {c.name : c \in Subcommands} |->
                    CHOOSE c \in Subcommands : c.name = n]

\* The docopt results of a subcommand whose argv matches its usage, in every
\* order in which the dictionary can be iterated
Permutations(n) ==
    {f \in [1..n -> 1..n] : \A i, j \in 1..n : f[i] = f[j] => i = j}

DocoptResults(sub) ==
    LET n == Len(sub.usage)
        filled == {r \in [1..n -> UNION {{[k |-> sub.usage[i].k, v |-> x] :
                                            x \in sub.usage[i].vs} : i \in 1..n}] :
                        \A i \in 1..n : r[i].k = sub.usage[i].k}
    IN  {[i \in 1..n |-> r[f[i]]] : r \in filled, f \in Permutations(n)}

\* The exceptions a handler of the model raises
HandlerExceptions ==
    {Exc("RuntimeError", <<>>), Exc("RuntimeError", <<"E", "r", "r", "o", "r">>),
     Exc("EOFError", <<>>), Exc("KeyboardInterrupt", <<>>),
     Exc("SystemExit", <<>>),
     InvalidCliValueError(<<"-", "-", "n">>, StrV(<<"1">>), <<>>)}

HelpArgs == {NoneV, StrV(<<"-", "a">>), StrV(<<"-", "x">>), StrV(t_hello),
             StrV(t_bye)}

LogLevelArgs == {NoneV, StrV(<<"DEBUG">>), StrV(<<"INVALID">>)}

(***************************************************************************)
(* The state after the process has started: anything the command line, the  *)
(* registered handler and the disk can be.                                  *)
(***************************************************************************)
Init ==
    /\ pc = "main"
    /\ command \in DOMAIN _SUBCOMMANDS \cup {t_bye, t_help}
    /\ log_level \in LogLevelArgs
    /\ disk_ok \in BOOLEAN
    /\ binder \in {"dispatcher", "call"}
    /\ IF command = t_help THEN help_arg \in HelpArgs ELSE help_arg = NoneV
    /\ IF command \in DOMAIN _SUBCOMMANDS
       THEN /\ argv_ok \in BOOLEAN
            /\ IF argv_ok
               THEN /\ cli_args \in DocoptResults(_SUBCOMMANDS[command])
                    /\ behaviour \in {NoExc} \cup HandlerExceptions
               ELSE cli_args = <<>> /\ behaviour = NoExc
       ELSE argv_ok = TRUE /\ cli_args = <<>> /\ behaviour = NoExc
    /\ todo = <<>>
    /\ hints = EmptyDict
    /\ named_args = EmptyDict
    /\ varargs = TupleV(<<>>)
    /\ raised = NoExc
    /\ bound = "no"
    /\ calls = <<>>
    /\ docs_parsed = <<>>
    /\ log_files = 0
    /\ result = NoResult
    /\ cast_type = NoType
    /\ cast_value = NoneV
    /\ cast_out = NoOutcome
    /\ PureIdle

(***************************************************************************)
(* rcli/dispatcher.py and rcli/call.py: the helpers of a dispatch.          *)
(***************************************************************************)
Contains(text, part) ==
    \E i \in 1..(Len(text) - Len(part) + 1) :
        SubSeq(text, i, i + Len(part) - 1) = part

\* A variant of _get_subcommand whose message does not name the subcommand
_get_subcommand_unnamed(name) ==
    IF name \notin DOMAIN _SUBCOMMANDS
    THEN [ok |-> FALSE,
          e |-> Exc("ValueError", <<"Not a ">> \o _COMMAND \o <<" command.">>)]
    ELSE [ok |-> TRUE, sub |-> _SUBCOMMANDS[name]]

\* dispatcher._get_subcommand
_get_subcommand(name) ==
    IF name \notin DOMAIN _SUBCOMMANDS
    THEN [ok |-> FALSE,
          e |-> Exc("ValueError",
                    <<"\"">> \o name \o <<"\" is not a ">> \o _COMMAND
                        \o <<" command. '">> \o _COMMAND
                        \o <<" ", "help -a", "' lists all available subcommands.">>)]
    ELSE [ok |-> TRUE, sub |-> _SUBCOMMANDS[name]]

\* A variant of the lookup that falls back to a registered subcommand
Resolve_default(name) ==
    IF name \in DOMAIN _SUBCOMMANDS THEN _get_subcommand(name)
    ELSE [ok |-> TRUE, sub |-> _SUBCOMMANDS[t_pos]]

\* subcommand = _get_subcommand(command_name), in _run_command
Resolve(name) == _get_subcommand(name)

\* dispatcher._get_signature: the names of the positional-or-keyword
\* parameters, without the receiver of a bound __call__
_get_signature(sub) == sub.args

\* call._getargspec of raw_func: for an instance raw_func is the __call__ of
\* its class, whose first parameter is the receiver
_getargspec(sub) ==
    [args |-> (IF sub.self THEN <<t_self>> ELSE <<>>) \o sub.args
                \o (IF sub.varargs # NoName THEN <<sub.varargs>> ELSE <<>>)
                \o (IF sub.varkw # NoName THEN <<sub.varkw>> ELSE <<>>),
     varargs |-> sub.varargs,
     varkw |-> sub.varkw]

\* hints[nk] of the defaultdict(lambda: Any, ...)
Get(dict, nk) == IF nk \in DOMAIN dict THEN dict[nk] ELSE Any

\* A variant of HintsFor that does not give the keys without a parameter
\* the hint of **kwargs
HintsFor_any(sub, dict, nk) ==
    LET argspec == _getargspec(sub)
        h == IF nk = argspec.varargs
             THEN Put(dict, nk, Tuple(<<Get(dict, nk), Ellipsis>>))
             ELSE dict
    IN  Put(h, nk, Get(h, nk))

\* call.py lines 64-67: the hints after the key nk has been looked at
HintsFor(sub, dict, nk) ==
    LET argspec == _getargspec(sub)
        h == IF nk = argspec.varargs
             THEN Put(dict, nk, Tuple(<<Get(dict, nk), Ellipsis>>))
             ELSE IF nk \notin Range(argspec.args) /\ argspec.varkw \in DOMAIN dict
             THEN Put(dict, nk, dict[argspec.varkw])
             ELSE dict
    IN  Put(h, nk, Get(h, nk))

\* A variant of the try statement of call that lets no failure of cast out
Propagates_never(out) == FALSE

\* call.py lines 68-72: an outcome of cast that raises leaves the loop
Propagates(out) == ~out.ok

\* call.py lines 70-72: the exception that leaves call when cast raised; the
\* except clause takes TypeError and its subclass CastError
CallError(item, out) ==
    IF out.exc \in {"TypeError", "CastError"}
    THEN InvalidCliValueError(item.k, item.v, <<>>)
    ELSE ExcOf(out)

\* Whether the call func(*varargs, **named_args) fits the signature of the
\* handler: *varargs unpacks a tuple, every keyword names a parameter or
\* goes to **kwargs, and no parameter is left without a value; Python
\* raises TypeError when it does not
Fits(sub, va, kw) ==
    LET n == Len(Val(va))
        positional == SubSeq(sub.args, 1, IF n < Len(sub.args) THEN n
                                          ELSE Len(sub.args))
    IN  /\ TypeOf(va) = "tuple"
        /\ n > Len(sub.args) => sub.varargs # NoName
        /\ \A nk \in DOMAIN kw :
                \/ nk \in Range(sub.args) \ Range(positional)
                \/ /\ sub.varkw # NoName
                   /\ nk \notin Range(sub.args)
                   /\ ~(sub.self /\ nk = t_self)
        /\ \A i \in DOMAIN sub.args :
                sub.args[i] \in Range(positional) \cup DOMAIN kw

Invocation(sub, va, kw) == [name |-> sub.name, args |-> va, kwargs |-> kw]

\* _enable_logging, lines 397-399: the levels logging knows
ValidLogLevel(level) == level = NoneV \/ Val(level) \in Range(LogLevels)

(***************************************************************************)
(* The dispatch: main of rcli/dispatcher.py, one action for each of its     *)
(* steps.                                                                   *)
(***************************************************************************)
dispatch_vars == <<todo, hints, named_args, varargs, bound, calls>>

\* main, lines 54-74: the primary usage is parsed, logging is enabled and
\* the command is told from a help request
Main ==
    /\ pc = "main"
    /\ docs_parsed' = Append(docs_parsed, _COMMAND)
    /\ IF ~ValidLogLevel(log_level)
       THEN raised' = InvalidLogLevelError(log_level) /\ pc' = "except"
       ELSE /\ raised' = raised
            /\ pc' = IF command = t_help THEN "help" ELSE "run_command"
    /\ UNCHANGED <<pure_vars, inputs, dispatch_vars, log_files, result, cast_vars>>

\* What a help function did: the exception it raised, and the owner of the
\* usage docopt printed, <<>> when nothing was printed
Helped(e, doc) == [raised |-> e, doc |-> doc]

HelpAll == {<<"-", "a">>, <<"-", "-", "a", "l", "l">>}

\* dispatcher._help: docopt prints the help of the usage it is given and
\* exits
_help(arg) ==
    IF arg = NoneV \/ Val(arg) = <<>> \/ Val(arg) \in HelpAll
    THEN Helped(Exc("SystemExit", <<>>), _COMMAND)
    ELSE IF StartsWith(Val(arg), <<"-">>)
    THEN Helped(Exc("ValueError", <<"Unrecognized option '">> \o Val(arg) \o <<"'.">>), <<>>)
    ELSE IF ~_get_subcommand(Val(arg)).ok
    THEN Helped(_get_subcommand(Val(arg)).e, <<>>)
    ELSE Helped(Exc("SystemExit", <<>>), Val(arg))

Help ==
    /\ pc = "help"
    /\ pc' = "except"
    /\ raised' = _help(help_arg).raised
    /\ docs_parsed' = IF _help(help_arg).doc = <<>> THEN docs_parsed
                      ELSE Append(docs_parsed, _help(help_arg).doc)
    /\ UNCHANGED <<pure_vars, inputs, dispatch_vars, log_files, result, cast_vars>>

\* _run_command up to the call: the subcommand is looked up, its usage is
\* parsed by docopt, and the dispatcher's binder builds the keyword
\* arguments or call's binder starts its loop
RunCommand ==
    /\ pc = "run_command"
    /\ LET r == Resolve(command)
       IN  IF ~r.ok
           THEN /\ raised' = r.e
                /\ pc' = "except"
                /\ UNCHANGED <<docs_parsed, dispatch_vars>>
           ELSE IF ~argv_ok
           THEN /\ raised' = Exc("SystemExit", <<"Usage">>)
                /\ pc' = "except"
                /\ docs_parsed' = Append(docs_parsed, r.sub.name)
                /\ UNCHANGED dispatch_vars
           ELSE IF binder = "dispatcher"
           THEN /\ named_args' =
                        dispatcher_normalize(_get_signature(r.sub), cli_args)
                /\ bound' = "ok"
                /\ pc' = "invoke"
                /\ docs_parsed' = Append(docs_parsed, r.sub.name)
                /\ UNCHANGED <<raised, todo, hints, varargs, calls>>
           ELSE /\ todo' = _normalize(cli_args)
                /\ hints' = r.sub.hints
                /\ bound' = IF cli_args = <<>> THEN "ok" ELSE bound
                /\ pc' = "call"
                /\ docs_parsed' = Append(docs_parsed, r.sub.name)
                /\ UNCHANGED <<raised, named_args, varargs, calls>>
    /\ UNCHANGED <<pure_vars, inputs, log_files, result, cast_vars>>

\* call, lines 63-77: one turn of the loop over the normalised arguments
CallLoop ==
    /\ pc = "call"
    /\ todo # <<>>
    /\ LET sub == Resolve(command).sub
           argspec == _getargspec(sub)
           item == Head(todo)
           nk == item.nk
           h == HintsFor(sub, hints, nk)
           out == cast(h[nk], item.v)
       IN  /\ hints' = h
           /\ cast_type' = h[nk]
           /\ cast_value' = item.v
           /\ cast_out' = out
           /\ IF Propagates(out)
              THEN /\ raised' = CallError(item, out)
                   /\ bound' = "failed"
                   /\ pc' = "except"
                   /\ UNCHANGED <<todo, named_args, varargs>>
              ELSE /\ todo' = Tail(todo)
                   /\ bound' = IF Tail(todo) = <<>> THEN "ok" ELSE bound
                   /\ pc' = pc
                   /\ raised' = raised
                   /\ IF nk = argspec.varargs
                      THEN varargs' = out.val /\ named_args' = named_args
                      ELSE IF /\ nk \in Range(argspec.args)
                                    \/ argspec.varkw # NoName
                              /\ \/ nk \notin DOMAIN named_args
                                 \/ named_args[nk] = NoneV
                      THEN /\ named_args' = Put(named_args, nk, out.val)
                           /\ varargs' = varargs
                      ELSE UNCHANGED <<named_args, varargs>>
    /\ UNCHANGED <<pure_vars, inputs, calls, docs_parsed, log_files, result>>

\* The call of the handler and what it does: it returns None, which
\* _run_command turns into 0, or it raises
CallHandler(sub, va, kw) ==
    IF ~Fits(sub, va, kw)
    THEN /\ raised' = Exc("TypeError", <<"arguments do not fit ">> \o sub.name)
         /\ bound' = "failed"
         /\ pc' = "except"
         /\ UNCHANGED <<calls, result>>
    ELSE /\ calls' = Append(calls, Invocation(sub, va, kw))
         /\ bound' = bound
         /\ IF behaviour = NoExc
            THEN /\ result' = Returned("int", <<"0">>)
                 /\ pc' = "done"
                 /\ raised' = raised
            ELSE /\ raised' = behaviour
                 /\ pc' = "except"
                 /\ result' = result

\* call, line 78: return func(*varargs, **named_args)
CallInvoke ==
    /\ pc = "call"
    /\ todo = <<>>
    /\ CallHandler(Resolve(command).sub, varargs, named_args)
    /\ UNCHANGED <<pure_vars, inputs, todo, hints, named_args, varargs, docs_parsed,
                   log_files, cast_vars>>

\* _run_command, line 294: return call(**_normalize(call, args)) or 0
Invoke ==
    /\ pc = "invoke"
    /\ CallHandler(Resolve(command).sub, TupleV(<<>>), named_args)
    /\ UNCHANGED <<pure_vars, inputs, todo, hints, named_args, varargs, docs_parsed,
                   log_files, cast_vars>>

\* main, lines 75-76: except exc.InvalidCliValueError as e: return e
ReturnInvalidCliValue ==
    /\ pc = "except"
    /\ IsInvalidCliValue(raised)
    /\ result' = Returned(raised.exc, raised.msg)
    /\ pc' = "done"
    /\ UNCHANGED <<pure_vars, inputs, dispatch_vars, raised, docs_parsed, log_files,
                   cast_vars>>

\* main, lines 77-78: except (KeyboardInterrupt, EOFError)
ReturnCancelled ==
    /\ pc = "except"
    /\ raised.exc \in {"KeyboardInterrupt", "EOFError"}
    /\ result' = Returned("str", CancelText)
    /\ pc' = "done"
    /\ UNCHANGED <<pure_vars, inputs, dispatch_vars, raised, docs_parsed, log_files,
                   cast_vars>>

\* main, lines 79-80: except Exception as e
HandleUnexpectedException ==
    /\ pc = "except"
    /\ ~IsInvalidCliValue(raised)
    /\ raised.exc # "EOFError"
    /\ IsException(raised)
    /\ result' = _handle_unexpected_exception(raised, disk_ok)
    /\ log_files' = IF disk_ok THEN log_files + 1 ELSE log_files
    /\ pc' = "done"
    /\ UNCHANGED <<pure_vars, inputs, dispatch_vars, raised, docs_parsed, cast_vars>>

\* No clause of main takes the exception: it leaves main
Escape ==
    /\ pc = "except"
    /\ ~IsException(raised)
    /\ raised.exc # "KeyboardInterrupt"
    /\ result' = Escaped(raised)
    /\ pc' = "done"
    /\ UNCHANGED <<pure_vars, inputs, dispatch_vars, raised, docs_parsed, log_files,
                   cast_vars>>

Next ==
    \/ Main
    \/ Help
    \/ RunCommand
    \/ CallLoop
    \/ CallInvoke
    \/ Invoke
    \/ ReturnInvalidCliValue
    \/ ReturnCancelled
    \/ HandleUnexpectedException
    \/ Escape

Spec == Init /\ [][Next]_vars

(***************************************************************************)
(* Properties of the dispatch.                                              *)
(***************************************************************************)
\* The last cast of the dispatch raised
CastFailed == ~cast_out.ok /\ cast_out.exc # ""

\* The handler was invoked and raised
HandlerRaised == calls # <<>> /\ behaviour # NoExc

\* The name a dispatch or a help request asks the registry for, when it is
\* not registered
UnknownRequested ==
    IF command = t_help
    THEN /\ help_arg # NoneV
         /\ ~StartsWith(Val(help_arg), <<"-">>)
         /\ Val(help_arg) \notin DOMAIN _SUBCOMMANDS
    ELSE command \notin DOMAIN _SUBCOMMANDS

Requested == IF command = t_help THEN Val(help_arg) ELSE command

\* C1: once a cast of a parsed value has failed, the binding has failed, the
\* dispatch is on its way out of main, and the handler has not been invoked
\* and is never invoked afterwards, wherever the failing key stands among
\* the parsed arguments.
C1_CastFailureNeverInvokes ==
    [](CastFailed => [](/\ calls = <<>>
                        /\ bound = "failed"
                        /\ pc \in {"except", "done"}))

\* A cast failed on a key that is neither the first nor the last of the
\* parsed arguments, and main has returned
C1_Witness ==
    /\ pc = "done"
    /\ CastFailed
    /\ Len(todo) >= 2
    /\ Len(todo) < Len(cli_args)
    /\ calls = <<>>

\* C2: a dispatch invokes the handler at most once; it has invoked it
\* exactly once when the subcommand is registered and the binding succeeded
\* and main is over; a help request, an unregistered command and a failed
\* binding invoke no handler.
C2_AtMostOneInvocation ==
    /\ Len(calls) <= 1
    /\ (/\ pc \in {"except", "done"}
        /\ command \in DOMAIN _SUBCOMMANDS
        /\ bound = "ok") => Len(calls) = 1
    /\ (\/ command = t_help
        \/ command \notin DOMAIN _SUBCOMMANDS
        \/ bound = "failed") => calls = <<>>

\* call's binder bound every argument and the handler ran once and returned
C2_Witness ==
    /\ pc = "done"
    /\ binder = "call"
    /\ bound = "ok"
    /\ Len(calls) = 1
    /\ Len(cli_args) = 3
    /\ result = Returned("int", <<"0">>)

\* C3: when the requested subcommand is not registered, main ends with the
\* ValueError of _get_subcommand, whose message names the subcommand and
\* points to 'help -a'; no usage but the primary one has been parsed,
\* nothing is bound and no handler is invoked.
C3_UnknownCommand ==
    (/\ pc = "done"
     /\ ValidLogLevel(log_level)
     /\ UnknownRequested) =>
        /\ raised.exc = "ValueError"
        /\ result.how = "returned"
        /\ Contains(result.text, Requested)
        /\ Contains(result.text, <<"help -a">>)
        /\ docs_parsed = <<_COMMAND>>
        /\ todo = <<>>
        /\ named_args = EmptyDict
        /\ varargs = TupleV(<<>>)
        /\ bound = "no"
        /\ calls = <<>>

\* The unregistered subcommand bye was dispatched and main has returned
C3_Witness ==
    /\ pc = "done"
    /\ command = t_bye
    /\ raised.exc = "ValueError"
    /\ result.how = "returned"

\* The text _handle_unexpected_exception is to return for the exception e
UnexpectedText(e) ==
    (IF e.msg = <<>> THEN <<>> ELSE e.msg \o <<"\n">>)
        \o (IF log_files = 1 THEN LogNotice ELSE NoLogNotice)

\* C4, as stated: whatever the handler raises, main returns the message of
\* the exception, a line break when the message is not empty, and the
\* notice about the log file.
C4_AnyHandlerException ==
    (pc = "done" /\ HandlerRaised) =>
        /\ result.how = "returned"
        /\ result.text = UnexpectedText(behaviour)
        /\ log_files = (IF disk_ok THEN 1 ELSE 0)

\* C4, amended: main returns the message and the notice for the exceptions
\* of the handler that derive from Exception, EOFError and
\* InvalidCliValueError excepted; an InvalidCliValueError is returned as it
\* is, EOFError and KeyboardInterrupt give the cancellation text, and the
\* other exceptions, SystemExit among them, leave main; a log file is
\* written in the first case only.
C4_HandlerException ==
    (pc = "done" /\ HandlerRaised) =>
        CASE IsInvalidCliValue(behaviour) ->
                /\ result = Returned(behaviour.exc, behaviour.msg)
                /\ log_files = 0
          [] behaviour.exc \in {"EOFError", "KeyboardInterrupt"} ->
                /\ result = Returned("str", CancelText)
                /\ log_files = 0
          [] behaviour.exc = "SystemExit" ->
                /\ result.how = "escaped"
                /\ result.kind = "SystemExit"
                /\ log_files = 0
          [] OTHER ->
                /\ result.how = "returned"
                /\ result.text = UnexpectedText(behaviour)
                /\ log_files = (IF disk_ok THEN 1 ELSE 0)

\* The handler raised an exception without a message and the log file could
\* not be written
C4_Witness ==
    /\ pc = "done"
    /\ HandlerRaised
    /\ behaviour = Exc("RuntimeError", <<>>)
    /\ ~disk_ok
    /\ result.text = NoLogNotice

\* C5: when a cast has failed, main returns an InvalidCliValueError whose
\* message contains the key as docopt produced it and the raw value; no log
\* file is written and no notice about a log file is part of the message.
C5_InvalidValueMessage ==
    (pc = "done" /\ CastFailed) =>
        /\ result.how = "returned"
        /\ result.kind = "InvalidCliValueError"
        /\ Contains(result.text, Head(todo).k)
        /\ Contains(result.text, Format(Head(todo).v))
        /\ log_files = 0
        /\ ~Contains(result.text, LogNotice)
        /\ ~Contains(result.text, NoLogNotice)

(***************************************************************************)
(* The casting engine: custom callables and optional parameters.            *)
(***************************************************************************)
\* C11: cast over a custom unary callable returns what the callable
\* returns, and whatever exception the callable raises leaves cast as a
\* CastError that carries the callable and the raw value.
C11_CustomCallable ==
    (pc = "cast_done" /\ cast_type.k = "function") =>
        LET r == Construct(cast_type, cast_value)
        IN  IF r.ok THEN cast_out = r
            ELSE cast_out = Raise("CastError", cast_type, cast_value)

\* typing._is_optional: the parameter has a default and the default is None
_is_optional(defaults, name) ==
    name \in DOMAIN defaults /\ defaults[name] = NoneV

\* get_type_hints, lines 427-429: the hint of the parameter name, declared
\* as value, of a function with the given defaults
HintOf(defaults, name, value) ==
    IF _is_optional(defaults, name) THEN Optional(value) ELSE value

\* C12: the hint of a parameter whose default is None is the optional of its
\* declared type, and the cast of None to that hint returns None.
C12_OptionalNone ==
    \A declared \in {int, str} :
        LET hint == HintOf(Dict(<<t_value>>, <<NoneV>>), t_value, declared)
        IN  /\ hint = Optional(declared)
            /\ (/\ pc = "cast_done"
                /\ cast_type = hint
                /\ cast_value = NoneV) => cast_out = Ok(NoneV)

(***************************************************************************)
(* The binders: properties.                                                 *)
(***************************************************************************)
\* The subcommand of the dispatch
Target == _SUBCOMMANDS[command]

\* Both binders are done and the handler is about to be called or has been
Bound == command \in DOMAIN _SUBCOMMANDS /\ bound = "ok"

\* The normalised name of a parsed key, as the binder of the dispatch
\* computes it
NameOf(k) == IF binder = "call" THEN NormalizedKey(k) ELSE _norm(k)

\* The binder of the dispatch has visited every parsed key without an
\* error
BindingDone ==
    /\ command \in DOMAIN _SUBCOMMANDS
    /\ argv_ok
    /\ ValidLogLevel(log_level)
    /\ \/ pc = "invoke"
       \/ pc = "call" /\ todo = <<>>
       \/ pc \in {"except", "done"} /\ ~CastFailed

\* C13: when the target has no **kwargs, the keyword arguments the binder
\* built hold declared parameters of the target only, every key that
\* matches a parameter is bound whatever other keys were parsed, and the
\* call of the handler with these arguments raises no error.
C13_UnknownKeysDropped ==
    (BindingDone /\ Target.varkw = NoName) =>
        /\ DOMAIN named_args \subseteq Range(Target.args)
        /\ \A i \in DOMAIN cli_args :
                NameOf(cli_args[i].k) \in Range(Target.args)
                    => NameOf(cli_args[i].k) \in DOMAIN named_args
        /\ pc \in {"except", "done"} => calls # <<>>

RECURSIVE NonNullValues(_, _)
NonNullValues(items, nk) ==
    IF items = <<>> THEN <<>>
    ELSE (IF _norm(items[1].k) = nk /\ items[1].v # NoneV
          THEN <<items[1].v>> ELSE <<>>) \o NonNullValues(Tail(items), nk)

\* C15: in the keyword arguments dispatcher._normalize built, a parameter
\* that several parsed keys normalise to is bound to None when none of their
\* values is not None, to the value itself when one is, and to the list of
\* the values that are not None, in the order met, when two or more are.
C15_Coalescing ==
    (BindingDone /\ binder = "dispatcher") =>
        \A nk \in Range(Target.args) :
            LET seen == NonNullValues(cli_args, nk)
            IN  IF \A i \in DOMAIN cli_args : _norm(cli_args[i].k) # nk
                THEN nk \notin DOMAIN named_args
                ELSE /\ nk \in DOMAIN named_args
                     /\ named_args[nk] =
                            CASE Len(seen) = 0 -> NoneV
                              [] Len(seen) = 1 -> seen[1]
                              [] OTHER -> ListV(seen)

\* Three parsed keys gave the parameter name a value and the handler was
\* called with the list of the three, in the order met
C15_Witness ==
    /\ pc = "done"
    /\ binder = "dispatcher"
    /\ command = t_greet
    /\ Len(calls) = 1
    /\ calls[1].kwargs[t_name] =
            ListV(<<StrV(<<"2">>), StrV(<<"1">>), StrV(<<"a", "b", "c">>)>>)

(***************************************************************************)
(* The normalisation of a key on its own: call._normalize and               *)
(* dispatcher._norm applied to any key docopt can produce.                  *)
(***************************************************************************)
MaxKeyLen == 3      \* longest raw key that is normalised

KeyChars == {"i", "n", "d", "A", "2", "-", "_", "<", ">", "."}

\* The keys of a docopt result: options, positional arguments and commands,
\* tokens without white space
RawKeys == UNION {[1..n -> KeyChars] : n \in 1..MaxKeyLen}

\* No dispatch and no cast is under way
NoDispatch ==
    /\ cast_type = NoType
    /\ cast_value = NoneV
    /\ cast_out = NoOutcome
    /\ command = <<>>
    /\ help_arg = NoneV
    /\ log_level = NoneV
    /\ binder = "call"
    /\ cli_args = <<>>
    /\ todo = <<>>
    /\ hints = EmptyDict
    /\ named_args = EmptyDict
    /\ varargs = TupleV(<<>>)
    /\ raised = NoExc
    /\ bound = "no"
    /\ calls = <<>>
    /\ docs_parsed = <<>>
    /\ log_files = 0
    /\ disk_ok = TRUE
    /\ argv_ok = TRUE
    /\ behaviour = NoExc
    /\ result = NoResult

\* The variables of the dispatch, of the cast and of the functions of
\* call.py and usage.py
rest_vars == <<key_vars, usage_vars, inputs, dispatch_vars, raised, docs_parsed,
               log_files, result, cast_vars>>

RestIdle == KeyIdle /\ UsageIdle /\ NoDispatch

KeyInit ==
    /\ pc = "key"
    /\ raw_key \in RawKeys
    /\ key_out = [call |-> <<>>, dispatcher |-> <<>>]
    /\ UsageIdle
    /\ LibIdle
    /\ NoDispatch

NormalizeKey ==
    /\ pc = "key"
    /\ key_out' = [call |-> NormalizedKey(raw_key), dispatcher |-> _norm(raw_key)]
    /\ pc' = "key_done"
    /\ UNCHANGED <<raw_key, usage_vars, lib_vars, inputs, dispatch_vars, raised,
                   docs_parsed, log_files, result, cast_vars>>

KeyNext == NormalizeKey

KeySpec == KeyInit /\ [][KeyNext]_vars

\* str.isidentifier, for the characters of the model
IsIdentifier(name) ==
    /\ name # <<>>
    /\ ~IsDigit(name[1])
    /\ \A i \in DOMAIN name : IsWord(name[i])

\* C16: the normalised key either binder makes of a raw key is an identifier
\* that is neither a keyword nor the name of a builtin.
C16_NormalizedKeyIsIdentifier ==
    pc = "key_done" =>
        /\ IsIdentifier(key_out.call)
        /\ key_out.call \notin Keywords \cup Builtins
        /\ IsIdentifier(key_out.dispatcher)
        /\ key_out.dispatcher \notin Keywords \cup Builtins

(***************************************************************************)
(* rcli/usage.py: the methods of str, and the functions of re, textwrap and *)
(* inspect that it calls.  A string is the sequence of its characters.      *)
(***************************************************************************)
Whitespace == {" ", "\n", "\t"}

IsSpace(c) == c \in Whitespace

\* str.isalpha and str.isupper, on one character
IsAlpha(c) == c \in Range(LowerLetters) \cup Range(UpperLetters)

IsUpper(c) == c \in Range(UpperLetters)

\* str.lstrip(), str.rstrip() and str.strip()
RECURSIVE lstrip(_)
lstrip(s) == IF s # <<>> /\ IsSpace(s[1]) THEN lstrip(Tail(s)) ELSE s

RECURSIVE rstrip(_)
rstrip(s) ==
    IF s # <<>> /\ IsSpace(s[Len(s)]) THEN rstrip(SubSeq(s, 1, Len(s) - 1))
    ELSE s

strip(s) == rstrip(lstrip(s))

\* s[i:] and s[:i] of Python, whose indices count from 0
From(s, i) == SubSeq(s, i + 1, Len(s))

UpTo(s, i) == SubSeq(s, 1, IF i < Len(s) THEN i ELSE Len(s))

\* str.find(c) for one character: the index from 0, -1 when there is none
find(s, c) ==
    IF \E i \in DOMAIN s : s[i] = c
    THEN (CHOOSE i \in DOMAIN s : s[i] = c /\ \A j \in 1..(i - 1) : s[j] # c) - 1
    ELSE -1

\* str.split(sep) for a separator that is not empty
RECURSIVE split(_, _)
split(s, sep) ==
    IF \E i \in 1..(Len(s) - Len(sep) + 1) : SubSeq(s, i, i + Len(sep) - 1) = sep
    THEN LET i == CHOOSE i \in 1..(Len(s) - Len(sep) + 1) :
                    /\ SubSeq(s, i, i + Len(sep) - 1) = sep
                    /\ \A j \in 1..(i - 1) : SubSeq(s, j, j + Len(sep) - 1) # sep
         IN  <<SubSeq(s, 1, i - 1)>> \o split(From(s, i + Len(sep) - 1), sep)
    ELSE <<s>>

\* str.splitlines(): the lines without their line breaks; the break that
\* ends the string starts no further line
splitlines(s) ==
    IF s = <<>> THEN <<>>
    ELSE IF s[Len(s)] = "\n" THEN split(SubSeq(s, 1, Len(s) - 1), <<"\n">>)
    ELSE split(s, <<"\n">>)

\* str.split(): the words between runs of white space
RECURSIVE words(_)
words(s) ==
    LET t == lstrip(s)
    IN  IF t = <<>> THEN <<>>
        ELSE LET n == IF \E i \in DOMAIN t : IsSpace(t[i])
                      THEN (CHOOSE i \in DOMAIN t :
                                /\ IsSpace(t[i])
                                /\ \A j \in 1..(i - 1) : ~IsSpace(t[j])) - 1
                      ELSE Len(t)
             IN  <<SubSeq(t, 1, n)>> \o words(From(t, n))

\* ' ' * n
Spaces(n) == [i \in 1..n |-> " "]

\* The number of white space characters a line starts with
RECURSIVE Indent(_)
Indent(line) ==
    IF line # <<>> /\ line[1] \in {" ", "\t"} THEN 1 + Indent(Tail(line)) ELSE 0

Min(set) == CHOOSE x \in set : \A y \in set : x <= y

\* textwrap.dedent: the white space every line that is not blank starts
\* with is removed; a blank line becomes empty
dedent(s) ==
    LET lines == split(s, <<"\n">>)
        full == {i \in DOMAIN lines : strip(lines[i]) # <<>>}
        margin == IF full = {} THEN 0 ELSE Min({Indent(lines[i]) : i \in full})
    IN  Join(<<"\n">>, [i \in DOMAIN lines |->
                IF i \in full THEN From(lines[i], margin) ELSE <<>>])

(***************************************************************************)
(* rcli/usage.py: sections and their merge.                                 *)
(***************************************************************************)
\* None, where a string is expected
NoSection == <<"None">>

\* An exception in the place of the string a function was to return
IsError(s) == Len(s) = 1 /\ s[1] \in {"ValueError", "TypeError"}

\* bool(s), for a string or None
Truthy(s) == s # NoSection /\ s # <<>>

\* str.lower
lower(s) == [i \in DOMAIN s |-> Lower(s[i])]

\* usage._merge_section; str.index raises ValueError when the original has
\* neither a colon nor a line break
_merge_section(original, to_merge) ==
    IF IsError(original) THEN original
    ELSE IF IsError(to_merge) THEN to_merge
    ELSE IF ~Truthy(original) THEN (IF Truthy(to_merge) THEN to_merge ELSE <<>>)
    ELSE IF ~Truthy(to_merge) THEN original
    ELSE IF find(original, ":") = -1 /\ find(original, "\n") = -1
    THEN <<"ValueError">>
    ELSE LET index == IF find(original, ":") # -1
                      THEN find(original, ":") + 1 ELSE find(original, "\n")
             name == strip(UpTo(original, index))
             section == rstrip(lstrip(From(original, index + 1))
                                \o <<"\n", " ", " ">>
                                \o lstrip(From(to_merge, index + 1)))
         IN  name \o <<"\n", " ", " ">> \o section

\* The matches of the pattern of _get_section in the lines from the i-th
\* on: a line that contains the name, whatever the case, and the lines
\* after it that start with a space or a tab
RECURSIVE FindAll(_, _, _)
FindAll(name, lines, i) ==
    IF i > Len(lines) THEN <<>>
    ELSE IF ~Contains(lower(lines[i]), name)
    THEN FindAll(name, lines, i + 1)
    ELSE LET body(j) == lines[j] # <<>> /\ lines[j][1] \in {" ", "\t"}
             last == CHOOSE j \in i..Len(lines) :
                        /\ \A l \in (i + 1)..j : body(l)
                        /\ j < Len(lines) => ~body(j + 1)
         IN  <<Join(<<"\n">>, SubSeq(lines, i, last))>>
                \o FindAll(name, lines, last + 1)

\* The loop of _get_section over the matches
RECURSIVE MergeAll(_, _)
MergeAll(usage, sections) ==
    IF sections = <<>> THEN usage
    ELSE MergeAll(_merge_section(usage, strip(sections[1])), Tail(sections))

\* usage._get_section
_get_section(name, source) ==
    MergeAll(NoSection, FindAll(name, split(source, <<"\n">>), 1))

(***************************************************************************)
(* rcli/usage.py: the commands of a usage string.                           *)
(***************************************************************************)
\* str.islower, on one character
IsLower(c) == c \in Range(LowerLetters)

\* The lines of a section, a wrapped line joined to the one it continues
RECURSIVE DeWrap(_, _)
DeWrap(commands, lines) ==
    IF lines = <<>> THEN commands
    ELSE LET line == lines[1]
             n == Len(commands)
         IN  IF commands = <<>>
                \/ (line # <<>> /\ IsAlpha(line[1]) /\ IsLower(line[1]))
             THEN DeWrap(Append(commands, line), Tail(lines))
             ELSE DeWrap([commands EXCEPT
                             ![n] = strip(commands[n]) \o <<" ">> \o strip(line)],
                         Tail(lines))

\* usage._parse_section: the lines, or the exception that escapes it
_parse_section(name, source) ==
    LET section == _get_section(name, source)
    IN  IF section = NoSection THEN [lines |-> <<>>, raises |-> "TypeError"]
        ELSE IF IsError(section) THEN [lines |-> <<>>, raises |-> section[1]]
        ELSE [lines |-> DeWrap(<<>>, splitlines(dedent(From(section, 7)))),
              raises |-> ""]

\* The index the loop of parse_commands ends with: that of the first
\* argument that is not a command, or of the last argument
RECURSIVE LoopIndex(_, _)
LoopIndex(args, i) ==
    IF args = <<>> THEN 0
    ELSE IF i + 1 = Len(args) THEN i
    ELSE IF IsAlpha(args[i + 1][1]) /\ ~IsUpper(args[i + 1][1])
    THEN LoopIndex(args, i + 1)
    ELSE i

\* The commands the loop of parse_commands has appended when it ends
Commands(args) ==
    LET i == LoopIndex(args, 0)
        isCommand(arg) == IsAlpha(arg[1]) /\ ~IsUpper(arg[1])
    IN  IF args = <<>> THEN <<>>
        ELSE IF isCommand(args[i + 1]) THEN UpTo(args, i + 1)
        ELSE UpTo(args, i)

\* One turn of the loop of parse_commands over the lines of the section
ParseLine(line) ==
    LET args == words(line)
    IN  <<Commands(args), From(args, LoopIndex(args, 0))>>

\* docopt.docopt(docstring, argv=()) raises DocoptLanguageError unless the
\* string has one section "usage:", which it finds with the pattern of
\* _get_section
DocoptLanguageError(docstring) ==
    Len(FindAll(<<"u", "s", "a", "g", "e", ":">>,
                split(docstring, <<"\n">>), 1)) # 1

\* usage.parse_commands: what it yields, and the exception that ends it
parse_commands(docstring) ==
    IF DocoptLanguageError(docstring) THEN [yields |-> <<>>, raises |-> ""]
    ELSE LET section == _parse_section(<<"u", "s", "a", "g", "e">>, docstring)
         IN  [yields |-> [n \in DOMAIN section.lines |->
                             ParseLine(section.lines[n])],
              raises |-> section.raises]

(***************************************************************************)
(* parse_commands on its own, applied to usage strings of one section.      *)
(***************************************************************************)
MaxTokens == 3      \* most tokens on a line of a usage section

\* Tokens of a usage pattern: commands, a positional argument in either
\* spelling and an option
Tokens == {<<"s", "a", "y">>, <<"h", "i">>, <<"<", "x", ">">>,
           <<"N", "A", "M", "E">>, <<"-", "v">>}

\* The lines of a usage section
PatternLines ==
    {Join(<<" ">>, ts) : ts \in UNION {[1..n -> Tokens] : n \in 1..MaxTokens}}

\* What separates the header of the usage section from its first line
HeaderEnds == {<<" ">>, <<"\n", " ", " ">>}

\* The lines that may follow the first: none, one more pattern, and the
\* rest of a wrapped pattern
MoreLines == {<<>>, <<"\n", " ", " ", "h", "i">>,
              <<"\n", " ", " ", " ", " ", "<", "x", ">">>}

ParseDocs ==
    {<<"U", "s", "a", "g", "e", ":">> \o e \o l \o m :
        e \in HeaderEnds, l \in PatternLines, m \in MoreLines}

ParseInit ==
    /\ pc = "parse"
    /\ u_doc \in ParseDocs
    /\ u_other = <<>>
    /\ u_width = 0
    /\ u_out = <<>>
    /\ u_again = <<>>
    /\ KeyIdle
    /\ LibIdle
    /\ NoDispatch

ParseCommands ==
    /\ pc = "parse"
    /\ u_out' = parse_commands(u_doc)
    /\ pc' = "parse_done"
    /\ UNCHANGED <<u_doc, u_other, u_width, u_again, key_vars, lib_vars, inputs,
                   dispatch_vars, raised, docs_parsed, log_files, result,
                   cast_vars>>

ParseNext == ParseCommands

ParseSpec == ParseInit /\ [][ParseNext]_vars

\* The lines of the usage section of the usage string that was parsed
UsageLines == _parse_section(<<"u", "s", "a", "g", "e">>, u_doc).lines

\* C20: parse_commands yields, for each line of the usage section, the
\* leading commands and the tokens after them: the two together are the
\* tokens of the line, none lost and none repeated.
C20_ChainThenRemaining ==
    pc = "parse_done" =>
        /\ Len(u_out.yields) = Len(UsageLines)
        /\ \A n \in DOMAIN u_out.yields :
              u_out.yields[n][1] \o u_out.yields[n][2] = words(UsageLines[n])

(***************************************************************************)
(* textwrap.wrap and inspect.cleandoc, as rcli/usage.py calls them.         *)
(***************************************************************************)
Max(set) == CHOOSE x \in set : \A y \in set : x >= y

\* ''.join(parts)
RECURSIVE Concat(_)
Concat(parts) == IF parts = <<>> THEN <<>> ELSE parts[1] \o Concat(Tail(parts))

\* str.expandtabs(): a tab becomes the spaces up to the next multiple of 8,
\* counted from column col, where the text before the tab ends
RECURSIVE ExpandFrom(_, _)
ExpandFrom(s, col) ==
    IF find(s, "\t") = -1 THEN s
    ELSE LET before == UpTo(s, find(s, "\t"))
             breaks == {i \in DOMAIN before : before[i] = "\n"}
             c == IF breaks = {} THEN col + Len(before)
                  ELSE Len(before) - Max(breaks)
         IN  before \o Spaces(8 - (c % 8))
                \o ExpandFrom(From(s, find(s, "\t") + 1), 0)

expandtabs(s) == ExpandFrom(s, 0)

\* The chunks textwrap splits a text into: the runs of white space and the
\* runs of other characters (words with a hyphen between letters, which
\* textwrap splits further, are not among the texts of the model)
RECURSIVE Chunks(_)
Chunks(text) ==
    IF text = <<>> THEN <<>>
    ELSE LET sp == IsSpace(text[1])
             other == {i \in DOMAIN text : IsSpace(text[i]) # sp}
             n == IF other = {} THEN Len(text) ELSE Min(other) - 1
         IN  <<SubSeq(text, 1, n)>> \o Chunks(From(text, n))

\* The length of the first k chunks together
RECURSIVE SumLen(_, _)
SumLen(chunks, k) ==
    IF k = 0 THEN 0 ELSE Len(chunks[k]) + SumLen(chunks, k - 1)

\* TextWrapper._wrap_chunks with drop_whitespace and break_long_words, for
\* a width above 0 (a word that is longer than the width is cut at the
\* width: the texts of the model have no hyphen in such a word)
RECURSIVE _wrap_chunks(_, _, _)
_wrap_chunks(chunks, width, lines) ==
    IF chunks = <<>> THEN lines
    ELSE LET cs == IF strip(chunks[1]) = <<>> /\ lines # <<>>
                   THEN Tail(chunks) ELSE chunks
             k == Max({j \in 0..Len(cs) : SumLen(cs, j) <= width})
             cur1 == UpTo(cs, k)
             rest1 == From(cs, k)
             long == rest1 # <<>> /\ Len(rest1[1]) > width
             space_left == width - SumLen(cs, k)
             cur2 == IF long THEN Append(cur1, UpTo(rest1[1], space_left))
                     ELSE cur1
             rest2 == IF long
                      THEN <<From(rest1[1], space_left)>> \o Tail(rest1)
                      ELSE rest1
             cur3 == IF cur2 # <<>> /\ strip(cur2[Len(cur2)]) = <<>>
                     THEN UpTo(cur2, Len(cur2) - 1) ELSE cur2
         IN  _wrap_chunks(rest2, width,
                          IF cur3 # <<>> THEN Append(lines, Concat(cur3))
                          ELSE lines)

\* textwrap.wrap(text, width, replace_whitespace=...): the lines, or the
\* ValueError of a width that is not above 0
wrap(text, width, replace_whitespace) ==
    LET expanded == expandtabs(text)
        munged == IF replace_whitespace
                  THEN [i \in DOMAIN expanded |->
                            IF IsSpace(expanded[i]) THEN " " ELSE expanded[i]]
                  ELSE expanded
    IN  IF width <= 0 THEN [lines |-> <<>>, raises |-> "ValueError"]
        ELSE [lines |-> _wrap_chunks(Chunks(munged), width, <<>>),
              raises |-> ""]

\* sep.join of the lines a function returned, or the exception it raised
JoinLines(sep, r) ==
    IF r.raises # "" THEN <<r.raises>> ELSE Join(sep, r.lines)

\* The list without the empty strings it starts with, and ends with
RECURSIVE DropFirstEmpty(_)
DropFirstEmpty(lines) ==
    IF lines # <<>> /\ lines[1] = <<>> THEN DropFirstEmpty(Tail(lines))
    ELSE lines

RECURSIVE DropLastEmpty(_)
DropLastEmpty(lines) ==
    IF lines # <<>> /\ lines[Len(lines)] = <<>>
    THEN DropLastEmpty(UpTo(lines, Len(lines) - 1))
    ELSE lines

\* inspect.cleandoc
cleandoc(doc) ==
    LET lines == split(expandtabs(doc), <<"\n">>)
        full == {i \in 2..Len(lines) : lstrip(lines[i]) # <<>>}
        margin == IF full = {} THEN 0
                  ELSE Min({Len(lines[i]) - Len(lstrip(lines[i])) : i \in full})
        cut == [i \in DOMAIN lines |->
                    IF i = 1 THEN lstrip(lines[i]) ELSE From(lines[i], margin)]
    IN  Join(<<"\n">>, DropFirstEmpty(DropLastEmpty(cut)))

(***************************************************************************)
(* rcli/usage.py: format_usage and _merge_doc.                              *)
(***************************************************************************)
\* sep.join(parts), or the first exception among the parts
JoinOrError(sep, parts) ==
    IF \E i \in DOMAIN parts : IsError(parts[i])
    THEN parts[Min({i \in DOMAIN parts : IsError(parts[i])})]
    ELSE Join(sep, parts)

\* re.match(r'\s\s+((?!\s\s).+)\s\s+.+', s), for one line
DefinitionLine(s) ==
    \E a, b, c \in 1..Len(s) :
        /\ 2 <= a /\ a < b /\ b + 2 <= c /\ c < Len(s)
        /\ \A i \in 1..a : IsSpace(s[i])
        /\ ~(IsSpace(s[a + 1]) /\ IsSpace(s[a + 2]))
        /\ \A i \in (b + 1)..c : IsSpace(s[i])

\* usage._is_definition_section
_is_definition_section(source) ==
    LET d == dedent(source)
        i == find(d, "\n")
    IN  IF i = -1 THEN FALSE
        ELSE \A n \in DOMAIN splitlines(From(d, i + 1)) :
                DefinitionLine(splitlines(From(d, i + 1))[n])

\* re.split(r'\s\s+', line), for a line that neither starts nor ends with
\* white space
RECURSIVE SplitWide(_)
SplitWide(line) ==
    LET wide == {i \in 1..(Len(line) - 1) :
                    IsSpace(line[i]) /\ IsSpace(line[i + 1])}
    IN  IF wide = {} THEN <<line>>
        ELSE <<SubSeq(line, 1, Min(wide) - 1)>>
                \o SplitWide(lstrip(From(line, Min(wide) - 1)))

\* descs[arg] = desc, for an ordered dictionary as the list of its items
SetItem(descs, arg, desc) ==
    IF \E i \in DOMAIN descs : descs[i][1] = arg
    THEN [i \in DOMAIN descs |->
            IF descs[i][1] = arg THEN <<arg, desc>> ELSE descs[i]]
    ELSE Append(descs, <<arg, desc>>)

\* The loop of _get_definitions
RECURSIVE Definitions(_, _)
Definitions(lines, acc) ==
    IF lines = <<>> \/ acc.raises # "" THEN acc
    ELSE LET line == strip(lines[1])
             parts == SplitWide(line)
         IN  IF line = <<>> THEN Definitions(Tail(lines), acc)
             ELSE IF Len(parts) # 2
             THEN [acc EXCEPT !.raises = "ValueError"]
             ELSE Definitions(Tail(lines),
                    [descs |-> SetItem(acc.descs, parts[1], parts[2]),
                     max_len |-> IF Len(parts[1]) > acc.max_len
                                 THEN Len(parts[1]) ELSE acc.max_len,
                     raises |-> ""])

\* usage._get_definitions
_get_definitions(source) ==
    Definitions(splitlines(source),
                [descs |-> <<>>, max_len |-> 0, raises |-> ""])

\* usage._wrap_definition_section
_wrap_definition_section(source, width) ==
    IF find(source, "\n") = -1 THEN <<"ValueError">>
    ELSE LET index == find(source, "\n") + 1
             defs == _get_definitions(From(source, index))
             max_len == defs.max_len
             sep == <<"\n">> \o Spaces(max_len + 4)
             line(item) ==
                LET wrapped_desc ==
                        JoinLines(sep, wrap(item[2], width - max_len - 4, TRUE))
                IN  IF IsError(wrapped_desc) THEN wrapped_desc
                    ELSE <<" ", " ">> \o item[1]
                            \o Spaces(max_len - Len(item[1]))
                            \o <<" ", " ">> \o wrapped_desc
         IN  IF defs.raises # "" THEN <<defs.raises>>
             ELSE JoinOrError(<<"\n">>,
                    <<strip(UpTo(source, index))>>
                        \o [n \in DOMAIN defs.descs |-> line(defs.descs[n])])

\* usage._wrap_usage_section
_wrap_usage_section(source, width) ==
    IF \A n \in DOMAIN splitlines(source) : Len(splitlines(source)[n]) <= width
    THEN source
    ELSE IF find(source, ":") = -1 THEN <<"ValueError">>
    ELSE LET section_header == strip(UpTo(source, find(source, ":") + 1))
             parsed == parse_commands(source)
             full_command(y) ==
                LET cmd == <<" ", " ">> \o Join(<<" ">>, y[1]) \o <<" ">>
                    max_len == width - Len(cmd)
                    sep == <<"\n">> \o Spaces(Len(cmd))
                    wrapped_args ==
                        JoinLines(sep, wrap(Join(<<" ">>, y[2]), max_len, TRUE))
                IN  IF IsError(wrapped_args) THEN wrapped_args
                    ELSE Join(<<"\n">>, splitlines(cmd \o wrapped_args))
         IN  IF parsed.raises # "" THEN <<parsed.raises>>
             ELSE JoinOrError(<<"\n">>,
                    <<section_header>>
                        \o [n \in DOMAIN parsed.yields |->
                                full_command(parsed.yields[n])])

\* usage._wrap_section
_wrap_section(source, width) ==
    LET usage == _get_section(<<"u", "s", "a", "g", "e">>, source)
        lines == splitlines(cleandoc(source))
        paragraphs == [n \in DOMAIN lines |->
                            JoinLines(<<"\n">>, wrap(lines[n], width, FALSE))]
    IN  IF IsError(usage) THEN usage
        ELSE IF Truthy(usage) THEN _wrap_usage_section(source, width)
        ELSE IF _is_definition_section(source)
        THEN _wrap_definition_section(source, width)
        ELSE JoinOrError(<<"\n">>,
                SelectSeq(paragraphs, LAMBDA par : par # <<>>))

\* get_terminal_size().columns or 80
Columns == 80

\* The width argument of format_usage when it is None
NoWidth == 0

\* usage.format_usage
format_usage(doc, width) ==
    LET sections == split(SelectSeq(doc, LAMBDA c : c # "\r"), <<"\n", "\n">>)
        w == IF width # NoWidth THEN width ELSE Columns
    IN  JoinOrError(<<"\n", "\n">>,
            [n \in DOMAIN sections |-> _wrap_section(strip(sections[n]), w)])

\* usage._merge_doc
_merge_doc(original, to_merge) ==
    IF ~Truthy(original) THEN (IF Truthy(to_merge) THEN to_merge ELSE <<>>)
    ELSE IF ~Truthy(to_merge) THEN original
    ELSE LET names == <<<<"u", "s", "a", "g", "e">>,
                        <<"a", "r", "g", "u", "m", "e", "n", "t", "s">>,
                        <<"o", "p", "t", "i", "o", "n", "s">>>>
             sections == [n \in DOMAIN names |->
                            _merge_section(_get_section(names[n], original),
                                           _get_section(names[n], to_merge))]
             joined == JoinOrError(<<"\n", "\n">>, sections)
         IN  IF IsError(joined) THEN joined
             ELSE format_usage(rstrip(joined), NoWidth)

(***************************************************************************)
(* _merge_doc on its own, applied to two usage strings.                     *)
(***************************************************************************)
\* The text of a string literal of the program
T_Usage == <<"U", "s", "a", "g", "e", ":">>
T_MyUsage == <<"M", "y", " ", "u", "s", "a", "g", "e", ":">>
T_USAGE == <<"U", "S", "A", "G", "E", ":">>
T_SayX == <<"\n", " ", " ", "s", "a", "y", " ", "<", "x", ">">>
T_SayHi == <<"\n", " ", " ", "s", "a", "y", " ", "h", "i">>
T_RunName == <<"\n", " ", " ", "r", "u", "n", " ", "N", "A", "M", "E">>
T_Run == <<"\n", " ", " ", "r", "u", "n">>
T_OptionsV == <<"\n", "\n", "O", "p", "t", "i", "o", "n", "s", ":", "\n", " ", " ", "-", "v", " ", " ", "L", "o", "u", "d", ".">>
T_OptionsQ == <<"\n", "\n", "O", "p", "t", "i", "o", "n", "s", ":", "\n", " ", " ", "-", "q", " ", " ", "Q", "u", "i", "e", "t", ".">>
T_SeeMore == <<"\n", "\n", "S", "e", "e", " ", "m", "o", "r", "e", ".">>
T_Notes == <<"\n", "\n", "N", "o", "t", "e", "s", ":", "\n", " ", " ", "x">>

\* The usage strings that are merged into: a usage section under either
\* header, then an options section or none, then free text or none
Originals ==
    {h \o T_SayX \o l \o o \o m :
        h \in {T_Usage, T_MyUsage}, l \in {<<>>, T_SayHi},
        o \in {<<>>, T_OptionsV}, m \in {<<>>, T_SeeMore}}

\* The usage strings that are merged: the docstring of the primary command,
\* which may be empty
ToMerge ==
    {<<>>} \cup
    {h \o T_RunName \o l \o o \o m :
        h \in {T_Usage, T_USAGE}, l \in {<<>>, T_Run},
        o \in {<<>>, T_OptionsQ}, m \in {<<>>, T_Notes}}

MergeInit ==
    /\ pc = "merge"
    /\ u_doc \in Originals
    /\ u_other \in ToMerge
    /\ u_width = 0
    /\ u_out = <<>>
    /\ u_again = <<>>
    /\ KeyIdle
    /\ LibIdle
    /\ NoDispatch

MergeDoc ==
    /\ pc = "merge"
    /\ u_out' = _merge_doc(u_doc, u_other)
    /\ pc' = "merge_done"
    /\ UNCHANGED <<u_doc, u_other, u_width, u_again, key_vars, lib_vars, inputs,
                   dispatch_vars, raised, docs_parsed, log_files, result,
                   cast_vars>>

MergeNext == MergeDoc

MergeSpec == MergeInit /\ [][MergeNext]_vars

\* The sections of a usage string: its blocks between blank lines
Sections(doc) ==
    LET blocks == split(doc, <<"\n", "\n">>)
    IN  SelectSeq([n \in DOMAIN blocks |-> strip(blocks[n])],
                  LAMBDA b : b # <<>>)

\* The first line of a section up to its colon
Header(section) == UpTo(section, find(section, ":") + 1)

\* The usage section of a usage string, <<>> when it has none
UsageSection(doc) ==
    LET found == SelectSeq(Sections(doc),
                    LAMBDA b : Contains(lower(Header(b)),
                                        <<"u", "s", "a", "g", "e">>))
    IN  IF found = <<>> THEN <<>> ELSE found[1]

\* The usage patterns of a usage string: the lines of its usage section
\* after the header
Patterns(doc) ==
    LET section == UsageSection(doc)
        lines == splitlines(From(section, Len(Header(section))))
    IN  SelectSeq([n \in DOMAIN lines |-> strip(lines[n])],
                  LAMBDA l : l # <<>>)

\* C17: the usage section of the merged usage string has the header of the
\* original and, after it, the usage patterns of the original and then those
\* of the merged string, each whole, whatever the two headers are.
C17_MergePreservesBoth ==
    pc = "merge_done" =>
        /\ Header(UsageSection(u_out)) = Header(UsageSection(u_doc))
        /\ Patterns(u_out) = Patterns(u_doc) \o Patterns(u_other)

\* The sections of a usage string that are none of usage, arguments and
\* options
OtherSections(doc) ==
    {b \in Range(Sections(doc)) :
        \A name \in {<<"u", "s", "a", "g", "e">>,
                     <<"a", "r", "g", "u", "m", "e", "n", "t", "s">>,
                     <<"o", "p", "t", "i", "o", "n", "s">>} :
            ~Contains(lower(b), name)}

\* C18: a section of either usage string that is none of usage, arguments
\* and options is in the merged usage string as it was.
C18_NoSectionDropped ==
    pc = "merge_done" =>
        \A b \in OtherSections(u_doc) \cup OtherSections(u_other) :
            Contains(u_out, b)

(***************************************************************************)
(* format_usage on its own, applied to a usage string and then to what it   *)
(* returned.                                                                *)
(***************************************************************************)
T_UsageShort == <<"U", "s", "a", "g", "e", ":", "\n", " ", " ", "s", "a", "y", " ", "<", "n", "a", "m", "e", ">">>
T_UsageLong == <<"U", "s", "a", "g", "e", ":", "\n", " ", " ", "s", "a", "y", " ", "h", "e", "l", "l", "o", " ", "<", "n", "a", "m", "e", ">", " ", "[", "<", "t", "i", "m", "e", "s", ">", "]", " ", "N", "A", "M", "E", " ", "<", "f", "i", "l", "e", ">">>
T_UsageTwo == <<"U", "s", "a", "g", "e", ":", "\n", " ", " ", "s", "a", "y", " ", "h", "i", "\n", " ", " ", "s", "a", "y", " ", "b", "y", "e", " ", "t", "o", " ", "<", "n", "a", "m", "e", ">", " ", "[", "<", "t", "i", "m", "e", "s", ">", "]", " ", "N", "A", "M", "E">>
T_OptionsShort == <<"\n", "\n", "O", "p", "t", "i", "o", "n", "s", ":", "\n", " ", " ", "-", "v", " ", " ", "V", "e", "r", "b", "o", "s", "e", ".">>
T_OptionsLong == <<"\n", "\n", "O", "p", "t", "i", "o", "n", "s", ":", "\n", " ", " ", "-", "h", ",", " ", "-", "-", "h", "e", "l", "p", " ", " ", "D", "i", "s", "p", "l", "a", "y", " ", "t", "h", "i", "s", " ", "h", "e", "l", "p", " ", "m", "e", "s", "s", "a", "g", "e", " ", "a", "n", "d", " ", "e", "x", "i", "t", ".", "\n", " ", " ", "-", "v", " ", " ", "V", "e", "r", "b", "o", "s", "e", ".">>
T_UsageChain == <<"U", "s", "a", "g", "e", ":", "\n", " ", " ", "a", "p", "p", "l", "i", "c", "a", "t", "i", "o", "n", " ", "s", "u", "b", "c", "o", "m", "m", "a", "n", "d", " ", "<", "n", "a", "m", "e", ">", " ", "<", "f", "i", "l", "e", ">">>
T_OptionsWide == <<"\n", "\n", "O", "p", "t", "i", "o", "n", "s", ":", "\n", " ", " ", "-", "-", "v", "e", "r", "b", "o", "s", "i", "t", "y", " ", "<", "l", "e", "v", "e", "l", ">", " ", " ", "L", "e", "v", "e", "l", ".">>
T_TextShort == <<"\n", "\n", "S", "e", "e", " ", "m", "o", "r", "e", ".">>
T_TextLong == <<"\n", "\n", "S", "e", "e", " ", "t", "h", "e", " ", "m", "a", "n", "u", "a", "l", " ", "f", "o", "r", " ", "m", "o", "r", "e", " ", "i", "n", "f", "o", "r", "m", "a", "t", "i", "o", "n", ".", "\n", " ", " ", "I", "t", " ", "i", "s", " ", "l", "o", "n", "g", ".">>

\* The usage strings that are formatted: a usage section, then an options
\* section or none, then free text or none
FormatDocs ==
    {u \o o \o m :
        u \in {T_UsageShort, T_UsageLong, T_UsageTwo, T_UsageChain},
        o \in {<<>>, T_OptionsShort, T_OptionsLong, T_OptionsWide},
        m \in {<<>>, T_TextShort, T_TextLong}}

\* The widths of the terminal
Widths == {20, 24, 32, 80}

FormatInit ==
    /\ pc = "format"
    /\ u_doc \in FormatDocs
    /\ u_other = <<>>
    /\ u_width \in Widths
    /\ u_out = <<>>
    /\ u_again = <<>>
    /\ KeyIdle
    /\ LibIdle
    /\ NoDispatch

\* format_usage(doc, width)
FormatUsage ==
    /\ pc = "format"
    /\ u_out' = format_usage(u_doc, u_width)
    /\ pc' = "formatted"
    /\ UNCHANGED <<u_doc, u_other, u_width, u_again, key_vars, lib_vars, inputs,
                   dispatch_vars, raised, docs_parsed, log_files, result,
                   cast_vars>>

\* format_usage(format_usage(doc, width), width), when the first call
\* returned
Reformat ==
    /\ pc = "formatted"
    /\ ~IsError(u_out)
    /\ u_again' = format_usage(u_out, u_width)
    /\ pc' = "reformatted"
    /\ UNCHANGED <<u_doc, u_other, u_width, u_out, key_vars, lib_vars, inputs,
                   dispatch_vars, raised, docs_parsed, log_files, result,
                   cast_vars>>

FormatNext == FormatUsage \/ Reformat

FormatSpec == FormatInit /\ [][FormatNext]_vars

\* C19: formatting what format_usage returned, to the same width of 20 or
\* more, returns it unchanged.
C19_ReflowIdempotent ==
    pc = "reformatted" /\ u_width >= 20 => u_again = u_out

\* The sections of the usage string that format_usage wraps as usage
\* patterns or as definitions, by their place among the sections
Columnar ==
    LET sections == split(SelectSeq(u_doc, LAMBDA c : c # "\r"), <<"\n", "\n">>)
    IN  {n \in DOMAIN sections :
            \/ Truthy(_get_section(<<"u", "s", "a", "g", "e">>, strip(sections[n])))
            \/ _is_definition_section(strip(sections[n]))}

\* C30: for a width of 20 or more format_usage returns a text, and no line
\* of a usage or definition section that it wrapped is longer than the
\* width.
C30_WrappedWithinWidth ==
    pc = "formatted" /\ u_width >= 20 =>
        /\ ~IsError(u_out)
        /\ LET before == split(u_doc, <<"\n", "\n">>)
               after == split(u_out, <<"\n", "\n">>)
           IN  \A n \in Columnar :
                 after[n] # strip(before[n]) =>
                    \A l \in DOMAIN splitlines(after[n]) :
                        Len(splitlines(after[n])[l]) <= u_width

(***************************************************************************)
(* The log level.                                                           *)
(***************************************************************************)
\* C23: a --log-level that is none of DEBUG, INFO, WARN and ERROR makes main
\* return the InvalidLogLevelError whose message names the value and the
\* four levels; no handler is invoked, no usage of a subcommand is parsed
\* and no log file is written.
C23_InvalidLogLevel ==
    (pc = "done" /\ ~ValidLogLevel(log_level)) =>
        /\ result.how = "returned"
        /\ result.kind = "InvalidLogLevelError"
        /\ result.text = <<"Invalid value \"">> \o Val(log_level)
                \o <<"\" supplied to ", "--log-level", ".",
                     " Valid options are: ", "DEBUG", ",", " ", "INFO",
                     ",", " ", "WARN", ",", " ", "ERROR">>
        /\ calls = <<>>
        /\ bound = "no"
        /\ docs_parsed = <<_COMMAND>>
        /\ log_files = 0

C23_Witness ==
    /\ pc = "done"
    /\ log_level = StrV(<<"INVALID">>)
    /\ command = t_hello
    /\ result.kind = "InvalidLogLevelError"

(***************************************************************************)
(* The receiver of a class-based command.                                   *)
(***************************************************************************)
\* C27: when the target is an instance with a __call__ method, no parsed key
\* is bound to the receiver "self" and no handler is called with a keyword
\* argument of that name.
C27_ReceiverExcluded ==
    (command \in DOMAIN _SUBCOMMANDS /\ Target.self) =>
        /\ t_self \notin DOMAIN named_args
        /\ \A i \in DOMAIN calls : t_self \notin DOMAIN calls[i].kwargs

(***************************************************************************)
(* The order of the parsed arguments.                                       *)
(***************************************************************************)
\* The loop of call over the normalised arguments as a whole, from the state
\* acc = [hints, named_args, varargs, failed]
RECURSIVE CallFold(_, _, _)
CallFold(sub, items, acc) ==
    IF items = <<>> \/ acc.failed THEN acc
    ELSE LET argspec == _getargspec(sub)
             nk == items[1].nk
             h == HintsFor(sub, acc.hints, nk)
             out == cast(h[nk], items[1].v)
             next ==
                IF Propagates(out) THEN [acc EXCEPT !.failed = TRUE]
                ELSE IF nk = argspec.varargs
                THEN [acc EXCEPT !.hints = h, !.varargs = out.val]
                ELSE IF /\ nk \in Range(argspec.args) \/ argspec.varkw # NoName
                        /\ \/ nk \notin DOMAIN acc.named_args
                           \/ acc.named_args[nk] = NoneV
                THEN [acc EXCEPT !.hints = h,
                                 !.named_args = Put(acc.named_args, nk, out.val)]
                ELSE [acc EXCEPT !.hints = h]
         IN  CallFold(sub, Tail(items), next)

\* What the binder of the dispatch passes to the handler for the parsed
\* arguments in the given order: the positional and the keyword arguments
Binding(sub, items) ==
    IF binder = "dispatcher"
    THEN [varargs |-> TupleV(<<>>),
          named_args |-> dispatcher_normalize(_get_signature(sub), items),
          failed |-> FALSE]
    ELSE LET end == CallFold(sub, _normalize(items),
                        [hints |-> sub.hints, named_args |-> EmptyDict,
                         varargs |-> TupleV(<<>>), failed |-> FALSE])
         IN  [varargs |-> end.varargs, named_args |-> end.named_args,
              failed |-> end.failed]

\* C29: the arguments the binder has built are those it builds from the
\* same parsed arguments in any other order.
C29_OrderIndependent ==
    BindingDone =>
        /\ Binding(Target, cli_args) =
                [varargs |-> varargs, named_args |-> named_args,
                 failed |-> FALSE]
        /\ \A f \in Permutations(Len(cli_args)) :
                Binding(Target, [i \in DOMAIN cli_args |-> cli_args[f[i]]])
                    = Binding(Target, cli_args)

(***************************************************************************)
(* rcli/typing.py: the type comments of a handler.  A handler is given by   *)
(* its parameters, each on a line of its own with an optional default and   *)
(* an optional comment, the comment that follows its header, and its body:  *)
(* a return statement with an optional comment, on the line of the header   *)
(* (inline) or indented below it.                                           *)
(***************************************************************************)
MaxParams == 2

T_TypeInt == <<"#", " ", "t", "y", "p", "e", ":", " ", "i", "n", "t">>
T_TypeStr == <<"#", " ", "t", "y", "p", "e", ":", " ", "s", "t", "r">>
T_TypeBroken == <<"#", " ", "t", "y", "p", "e", ":", " ", "l", "s", "t", "[">>
T_Note == <<"#", " ", "a", " ", "n", "o", "t", "e">>
T_ShortBoth ==
    <<"#", " ", "t", "y", "p", "e", ":", " ", "(", "i", "n", "t", ",", " ",
      "s", "t", "r", ")", " ", "-", ">", " ", "N", "o", "n", "e">>
T_ShortRest ==
    <<"#", " ", "t", "y", "p", "e", ":", " ", "(", ".", ".", ".", ")", " ",
      "-", ">", " ", "N", "o", "n", "e">>
T_ShortBroken ==
    <<"#", " ", "t", "y", "p", "e", ":", " ", "(", "i", "n", "t", " ", "s",
      "t", "r", ")", " ", "-", ">", " ", "N", "o", "n", "e">>
t_None == <<"N", "o", "n", "e">>
t_1 == <<"1">>
t_def == <<"d", "e", "f">>
t_f == <<"f">>
t_return == <<"r", "e", "t", "u", "r", "n">>
t_c == <<"c">>
t_type == <<"t", "y", "p", "e", ":">>
t_arrow == <<"-", ">">>

NoComment == <<>>
NoDefault == <<>>

ParamNames == <<t_a, t_b, t_c>>

ParamComments == {NoComment, T_TypeInt, T_TypeBroken, T_Note}
Defaults == {NoDefault, t_None, t_1}
ShortComments == {NoComment, T_ShortBoth, T_ShortRest, T_ShortBroken}
BodyComments == {NoComment, T_TypeStr}

Param(default, comment) == [default |-> default, comment |-> comment]

\* The handlers whose source is scanned.  No parameter without a default
\* follows one with a default, and the comment after the header needs a line
\* of its own, which an inline body does not leave
Handlers ==
    {h \in [params : UNION {[1..k -> {Param(d, c) : d \in Defaults, c \in ParamComments}] : k \in 1..MaxParams},
            short : ShortComments, inline : BOOLEAN, note : BodyComments] :
        /\ h.inline => h.short = NoComment
        /\ \A i \in DOMAIN h.params : \A j \in DOMAIN h.params :
                i < j /\ h.params[i].default # NoDefault => h.params[j].default # NoDefault}

Token(t, v) == [t |-> t, v |-> v]

\* tokenize.generate_tokens over one parameter line
ParamTokens(params, i) ==
    <<Token("NAME", ParamNames[i])>>
    \o (IF params[i].default = NoDefault THEN <<>>
        ELSE <<Token("OP", <<"=">>),
               Token(IF IsDigit(params[i].default[1]) THEN "NUMBER" ELSE "NAME", params[i].default)>>)
    \o (IF i < Len(params) THEN <<Token("OP", <<",">>)>> ELSE <<>>)
    \o (IF params[i].comment = NoComment THEN <<>> ELSE <<Token("COMMENT", params[i].comment)>>)
    \o <<Token("NL", <<"\n">>)>>

\* The statement of the body: return a, with its comment
BodyTokens(handler) ==
    <<Token("NAME", t_return), Token("NAME", t_a)>>
    \o (IF handler.note = NoComment THEN <<>> ELSE <<Token("COMMENT", handler.note)>>)
    \o <<Token("NEWLINE", <<"\n">>)>>

\* tokenize.generate_tokens over inspect.getsource(func)
Tokenize(handler) ==
    <<Token("NAME", t_def), Token("NAME", t_f), Token("OP", <<"(">>)>>
    \o Concat([i \in DOMAIN handler.params |-> ParamTokens(handler.params, i)])
    \o <<Token("OP", <<")">>), Token("OP", <<":">>)>>
    \o (IF handler.inline THEN BodyTokens(handler)
        ELSE <<Token("NEWLINE", <<"\n">>)>>
             \o (IF handler.short = NoComment THEN <<>>
                 ELSE <<Token("COMMENT", handler.short), Token("NL", <<"\n">>)>>)
             \o <<Token("INDENT", <<" ", " ", " ", " ">>)>>
             \o BodyTokens(handler)
             \o <<Token("DEDENT", <<>>)>>)
    \o <<Token("ENDMARKER", <<>>)>>

\* re.match(r'#\s*type:(.+)', value): group 1, <<>> when there is no match
TypeSigOf(value) ==
    LET rest == lstrip(Tail(value))
    IN  IF value # <<>> /\ value[1] = "#" /\ StartsWith(rest, t_type) /\ Len(rest) > Len(t_type)
        THEN From(rest, Len(t_type))
        ELSE <<>>

\* The loop of _get_type_comments from token i on; name is the last NAME
\* seen, <<>> for None
RECURSIVE TypeComments(_, _, _, _)
TypeComments(tokens, i, name, last_token) ==
    IF i > Len(tokens) \/ tokens[i].t = "INDENT" THEN <<>>
    ELSE IF tokens[i].t = "NAME"
         THEN TypeComments(tokens, i + 1, tokens[i].v, tokens[i].t)
    ELSE IF tokens[i].t = "COMMENT" /\ TypeSigOf(tokens[i].v) # <<>>
         THEN LET type_sig == strip(TypeSigOf(tokens[i].v))
              IN  IF Contains(type_sig, t_arrow) /\ last_token = "NEWLINE"
                  THEN <<split(type_sig, t_arrow)>>
                       \o TypeComments(tokens, i + 1, name, tokens[i].t)
                  ELSE IF name # <<>>
                  THEN <<<<name, type_sig>>>>
                       \o TypeComments(tokens, i + 1, <<>>, tokens[i].t)
                  ELSE TypeComments(tokens, i + 1, name, tokens[i].t)
    ELSE TypeComments(tokens, i + 1, name, tokens[i].t)

_get_type_comments(handler) == TypeComments(Tokenize(handler), 1, <<>>, "None")

(***************************************************************************)
(* rcli/typing.py: the hints the type comments give.  A dict is kept as the *)
(* sequence of its items, in insertion order; a value is a string or a type. *)
(***************************************************************************)
t_int == <<"i", "n", "t">>
t_str == <<"s", "t", "r">>
t_Any == <<"A", "n", "y">>
t_rest == <<"(", ".", ".", ".", ")">>

\* The key the hint of the return value is kept under
t_return_key == t_return

\* None, as eval yields it
PyNone == Hint("const", "None", <<>>, FALSE)

\* The names eval finds in the namespace of the handler
Namespace == [n \in {t_int, t_str, t_Any, t_None} |->
                 IF n = t_int THEN int ELSE IF n = t_str THEN str
                 ELSE IF n = t_Any THEN Any ELSE PyNone]

Evaluated(vals, is_tuple, raises) == [vals |-> vals, is_tuple |-> is_tuple, raises |-> raises]

\* eval of a name
EvalName(text) ==
    IF text \in DOMAIN Namespace THEN Evaluated(<<Namespace[text]>>, FALSE, "")
    ELSE IF IsIdentifier(text) THEN Evaluated(<<>>, FALSE, "NameError")
    ELSE Evaluated(<<>>, FALSE, "SyntaxError")

\* eval of an expression: a name, or names between commas in brackets
Eval(text) ==
    LET s == strip(text)
        inner == SubSeq(s, 2, Len(s) - 1)
        all == split(inner, <<",">>)
        trailing == Len(all) > 1 /\ strip(all[Len(all)]) = <<>>
        items == IF trailing THEN SubSeq(all, 1, Len(all) - 1) ELSE all
        each == [i \in DOMAIN items |-> EvalName(strip(items[i]))]
    IN  IF ~(Len(s) >= 2 /\ s[1] = "(" /\ s[Len(s)] = ")") THEN EvalName(s)
        ELSE IF \E i \in DOMAIN inner : inner[i] \in {"(", ")"}
        THEN Evaluated(<<>>, FALSE, "SyntaxError")
        ELSE IF strip(inner) = <<>> THEN Evaluated(<<>>, TRUE, "")
        ELSE IF \E i \in DOMAIN each : each[i].raises = "SyntaxError"
        THEN Evaluated(<<>>, FALSE, "SyntaxError")
        ELSE IF \E i \in DOMAIN each : each[i].raises = "NameError"
        THEN Evaluated(<<>>, FALSE, "NameError")
        ELSE Evaluated([i \in DOMAIN each |-> each[i].vals[1]], trailing \/ Len(items) > 1, "")

_parse_short_form(comment) ==
    IF Contains(comment, t_rest) THEN Evaluated(<<>>, TRUE, "")
    ELSE LET hints_ == Eval(SelectSeq(comment, LAMBDA c : c # "*"))
         IN  Evaluated(hints_.vals, TRUE, hints_.raises)

\* dict[key] = value and dict.update(pairs), on the items of a dict
Item(key, value) == [key |-> key, value |-> value]

SetKey(items, key, value) ==
    IF \E i \in DOMAIN items : items[i].key = key
    THEN [i \in DOMAIN items |-> IF items[i].key = key THEN Item(key, value) ELSE items[i]]
    ELSE Append(items, Item(key, value))

RECURSIVE Update(_, _)
Update(items, pairs) ==
    IF pairs = <<>> THEN items
    ELSE Update(SetKey(items, pairs[1].key, pairs[1].value), Tail(pairs))

Hinted(items, raises) == [hints |-> items, raises |-> raises]

\* get_signature(func), flattened: the names of the parameters
Signature(handler) == [i \in DOMAIN handler.params |-> ParamNames[i]]

\* The loop of _get_comment_type_hints over the comments from i on
RECURSIVE CommentHints(_, _, _, _)
CommentHints(signature, comments, i, items) ==
    IF i > Len(comments) THEN Hinted(items, "")
    ELSE IF Len(comments[i]) # 2 THEN Hinted(items, "ValueError")
    ELSE LET name == strip(comments[i][1])
             value == strip(comments[i][2])
         IN  IF name \in Range(signature)
             THEN CommentHints(signature, comments, i + 1, SetKey(items, name, StrV(value)))
             ELSE IF StartsWith(name, <<"(">>) /\ name[Len(name)] = ")"
             THEN LET parsed == _parse_short_form(name)
                      type_values == IF Len(parsed.vals) = Len(signature) + 1
                                     THEN Tail(parsed.vals) ELSE parsed.vals
                      returns == SetKey(items, t_return_key, StrV(value))
                  IN  IF parsed.raises # "" THEN Hinted(returns, parsed.raises)
                      ELSE IF Len(type_values) = Len(signature)
                      THEN CommentHints(signature, comments, i + 1,
                               Update(returns, [n \in DOMAIN signature |-> Item(signature[n], type_values[n])]))
                      ELSE CommentHints(signature, comments, i + 1, returns)
             ELSE CommentHints(signature, comments, i + 1, items)

_get_comment_type_hints(handler) ==
    CommentHints(Signature(handler), _get_type_comments(handler), 1, <<>>)

\* _get_func_defaults(func): the defaults of the parameters that have one
FuncDefaults(handler) ==
    LET with == {i \in DOMAIN handler.params : handler.params[i].default # NoDefault}
    IN  [n \in {ParamNames[i] : i \in with} |->
            LET i == CHOOSE i \in with : ParamNames[i] = n
            IN  IF handler.params[i].default = t_None THEN NoneV
                ELSE StrV(handler.params[i].default)]

\* _ForwardRef(value) and _eval_type of it, or _eval_type of a type
EvalType(value) ==
    IF "str" \in DOMAIN value
    THEN LET e == Eval(value.str)
         IN  IF e.raises # "" THEN e
             ELSE IF e.is_tuple THEN Evaluated(<<>>, FALSE, "TypeError")
             ELSE IF e.vals[1] = PyNone THEN Evaluated(<<NoneType>>, FALSE, "")
             ELSE e
    ELSE Evaluated(<<IF value = PyNone THEN NoneType ELSE value>>, FALSE, "")

\* The loop of get_type_hints over the items: the first value that does not
\* evaluate ends it
EvalHints(defaults, items) ==
    LET evals == [i \in DOMAIN items |-> EvalType(items[i].value)]
        failed == {i \in DOMAIN items : evals[i].raises # ""}
    IN  IF failed # {}
        THEN Hinted(items, evals[CHOOSE i \in failed : \A j \in failed : i <= j].raises)
        ELSE Hinted([i \in DOMAIN items |->
                        Item(items[i].key, HintOf(defaults, items[i].key, evals[i].vals[1]))],
                    "")

\* get_type_hints, once the hints of the comments are found: an error of
\* _get_comment_type_hints leaves it as it is
HintsOf(defaults, found) ==
    IF found.raises # "" THEN found ELSE EvalHints(defaults, found.hints)

\* get_type_hints(obj) for a handler without annotations
get_type_hints(handler) ==
    HintsOf(FuncDefaults(handler), _get_comment_type_hints(handler))

(***************************************************************************)
(* The introspection of a handler on its own: its source is scanned for     *)
(* type comments, then its hints are taken.                                 *)
(***************************************************************************)
CommentInit ==
    /\ pc = "scan"
    /\ c_handler \in Handlers
    /\ c_comments = <<>>
    /\ c_hints = Hinted(<<>>, "")
    /\ HelpIdle /\ SingletonIdle /\ SignalIdle /\ TaskIdle
    /\ RestIdle

GetTypeComments ==
    /\ pc = "scan"
    /\ c_comments' = _get_type_comments(c_handler)
    /\ pc' = "scanned"
    /\ UNCHANGED <<c_handler, c_hints, help_vars, singleton_vars, signal_vars, task_vars,
                   rest_vars>>

GetTypeHints ==
    /\ pc = "scanned"
    /\ c_hints' = get_type_hints(c_handler)
    /\ pc' = "hinted"
    /\ UNCHANGED <<c_handler, c_comments, help_vars, singleton_vars, signal_vars,
                   task_vars, rest_vars>>

CommentNext == GetTypeComments \/ GetTypeHints

CommentSpec == CommentInit /\ [][CommentNext]_vars

IsTypeComment(comment) == TypeSigOf(comment) # <<>>

\* The parameters of the handler that carry a type comment, in order
Commented(handler) ==
    SelectSeq([i \in DOMAIN handler.params |-> i],
              LAMBDA i : IsTypeComment(handler.params[i].comment))

\* C26: the type comments yielded for a handler are the type comment of each
\* parameter that has one, each with the name of its parameter and in the
\* order of the parameters, then the comment that follows the header; the
\* default of a parameter changes nothing, and no comment of the body is
\* yielded.
C26_CommentsFollowParameters ==
    pc = "scanned" =>
        c_comments =
            [n \in DOMAIN Commented(c_handler) |->
                <<ParamNames[Commented(c_handler)[n]],
                  strip(TypeSigOf(c_handler.params[Commented(c_handler)[n]].comment))>>]
            \o (IF IsTypeComment(c_handler.short)
                THEN <<split(strip(TypeSigOf(c_handler.short)), t_arrow)>>
                ELSE <<>>)

\* The parameters whose type comment does not evaluate, and whether the
\* comment after the header does not
MalformedParams(handler) ==
    {i \in DOMAIN handler.params :
        /\ IsTypeComment(handler.params[i].comment)
        /\ Eval(TypeSigOf(handler.params[i].comment)).raises # ""}

MalformedShort(handler) ==
    /\ IsTypeComment(handler.short)
    /\ _parse_short_form(strip(split(TypeSigOf(handler.short), t_arrow)[1])).raises # ""

\* C21: introspecting a handler with a type comment that does not parse or
\* evaluate raises nothing, and no parameter with such a comment gets a hint
\* other than Any.
C21_MalformedDegradesToAny ==
    (pc = "hinted" /\ (MalformedParams(c_handler) # {} \/ MalformedShort(c_handler))) =>
        /\ c_hints.raises = ""
        /\ \A i \in MalformedParams(c_handler) : \A n \in DOMAIN c_hints.hints :
                c_hints.hints[n].key = ParamNames[i] => c_hints.hints[n].value = Any

(***************************************************************************)
(* rcli/usage.py: get_help_usage, next to dispatcher._help.                 *)
(***************************************************************************)
MaxHelpLen == 5

HelpChars == {"-", "a", "l"}

\* The arguments of help: nothing, the texts the bound allows, a registered
\* command and one that is not registered
HelpCommands ==
    {NoneV} \cup {StrV(s) : s \in UNION {[1..n -> HelpChars] : n \in 0..MaxHelpLen}}
            \cup {StrV(t_hello), StrV(t_bye)}

\* usage.get_help_usage: no branch assigns doc for a name that is not
\* registered, and docopt.docopt(doc, ...) then reads an unbound local
get_help_usage(arg) ==
    IF arg = NoneV \/ Val(arg) = <<>> \/ Val(arg) \in HelpAll
    THEN Helped(Exc("SystemExit", <<>>), _COMMAND)
    ELSE IF StartsWith(Val(arg), <<"-">>)
    THEN Helped(Exc("ValueError", <<"Unrecognized option '">> \o Val(arg) \o <<"'.">>), <<>>)
    ELSE IF Val(arg) \in DOMAIN _SUBCOMMANDS
    THEN Helped(Exc("SystemExit", <<>>), Val(arg))
    ELSE Helped(Exc("UnboundLocalError", <<"local variable 'doc' referenced before assignment">>), <<>>)

HelpInit ==
    /\ pc = "get_help"
    /\ h_command \in HelpCommands
    /\ h_out = <<>>
    /\ CommentIdle /\ SingletonIdle /\ SignalIdle /\ TaskIdle
    /\ RestIdle

GetHelp ==
    /\ pc = "get_help"
    /\ h_out' = <<get_help_usage(h_command), _help(h_command)>>
    /\ pc' = "got_help"
    /\ UNCHANGED <<h_command, comment_vars, singleton_vars, signal_vars, task_vars,
                   rest_vars>>

HelpNext == GetHelp

HelpSpec == HelpInit /\ [][HelpNext]_vars

\* Help is asked for a name that is not registered, or for an option other
\* than -a and --all
InvalidHelp ==
    /\ h_command # NoneV
    /\ Val(h_command) # <<>>
    /\ Val(h_command) \notin HelpAll
    /\ StartsWith(Val(h_command), <<"-">>) \/ Val(h_command) \notin DOMAIN _SUBCOMMANDS

\* C22: asked for the help of a name that is not registered, or given an
\* option other than -a and --all, get_help_usage and _help raise ValueError
\* and print nothing.
C22_InvalidHelpRaisesValueError ==
    (pc = "got_help" /\ InvalidHelp) =>
        \A n \in DOMAIN h_out :
            h_out[n].raised.exc = "ValueError" /\ h_out[n].doc = <<>>

(***************************************************************************)
(* rcli/typing.py and rcli/config.py: the settings singleton.  The thread   *)
(* that imports rcli.config runs settings = _RcliConfig() under the import  *)
(* lock; every other thread gets at the class once the module is imported.  *)
(* An instance is the number of the run of __init__ that made it.           *)
(***************************************************************************)
MaxThreads == 3
MaxCalls == 3

Threads == 1..MaxThreads

\* The thread that imports rcli.config
Importer == 1

Thread(at, inst, got) == [at |-> at, inst |-> inst, got |-> got]

\* What an instantiation leaves alone
not_singleton == <<pc, comment_vars, help_vars, signal_vars, task_vars, rest_vars>>

NeedsInstance_always(instance) == TRUE

\* not cls.__instance__
NeedsInstance(instance) == instance = 0

SingletonInit ==
    /\ pc = "config"
    /\ s_instance = 0
    /\ s_inits = 0
    /\ s_settings = 0
    /\ s_threads = [t \in Threads |-> Thread("idle", 0, <<>>)]
    /\ CommentIdle /\ HelpIdle /\ SignalIdle /\ TaskIdle
    /\ RestIdle

\* Singleton.__call__: if not cls.__instance__
CheckInstance(t) ==
    /\ s_threads[t].at = "idle"
    /\ Len(s_threads[t].got) < MaxCalls
    /\ s_settings # 0 \/ t = Importer
    /\ s_threads' = [s_threads EXCEPT ![t].at =
                        IF NeedsInstance(s_instance) THEN "create" ELSE "return"]
    /\ UNCHANGED <<not_singleton, s_instance, s_inits, s_settings>>

\* super(Singleton, cls).__call__(): __init__ runs and returns
CreateInstance(t) ==
    /\ s_threads[t].at = "create"
    /\ s_inits' = s_inits + 1
    /\ s_threads' = [s_threads EXCEPT ![t].at = "store", ![t].inst = s_inits + 1]
    /\ UNCHANGED <<not_singleton, s_instance, s_settings>>

\* __init__ raises on the metadata of the distribution: the call, and the
\* import it is part of, fail
InitRaises(t) ==
    /\ s_threads[t].at = "create"
    /\ s_inits' = s_inits + 1
    /\ s_threads' = [s_threads EXCEPT ![t].at = "raised"]
    /\ UNCHANGED <<not_singleton, s_instance, s_settings>>

\* cls.__instance__ = the new instance
StoreInstance(t) ==
    /\ s_threads[t].at = "store"
    /\ s_instance' = s_threads[t].inst
    /\ s_threads' = [s_threads EXCEPT ![t].at = "return"]
    /\ UNCHANGED <<not_singleton, s_inits, s_settings>>

\* return cls.__instance__; the call of the module binds settings
ReturnInstance(t) ==
    /\ s_threads[t].at = "return"
    /\ s_threads' = [s_threads EXCEPT ![t].at = "idle",
                                      ![t].got = Append(@, s_instance)]
    /\ s_settings' = IF s_settings = 0 THEN s_instance ELSE s_settings
    /\ UNCHANGED <<not_singleton, s_instance, s_inits>>

SingletonNext ==
    \E t \in Threads :
        \/ CheckInstance(t)
        \/ CreateInstance(t)
        \/ InitRaises(t)
        \/ StoreInstance(t)
        \/ ReturnInstance(t)

SingletonSpec == SingletonInit /\ [][SingletonNext]_vars

\* C25: every instantiation of the configuration class returns the one
\* instance that settings is bound to, and __init__ runs at most once.
C25_SettingsSingleton ==
    pc = "config" =>
        /\ s_inits <= 1
        /\ \A t \in DOMAIN s_threads : \A i \in DOMAIN s_threads[t].got :
                s_threads[t].got[i] # 0 /\ s_threads[t].got[i] = s_settings

\* Two threads have each instantiated the class after the import
C25_Witness ==
    /\ pc = "config"
    /\ s_settings # 0
    /\ \E t \in DOMAIN s_threads : \E u \in DOMAIN s_threads :
            /\ t # u
            /\ Len(s_threads[t].got) = MaxCalls
            /\ Len(s_threads[u].got) = MaxCalls

(***************************************************************************)
(* rcli/display.py: run_tasks.  A task is (title, task) or (title, task,    *)
(* weight); the task is given by what calling it does.  What is printed is  *)
(* kept as the events header, title, status and footer.                     *)
(***************************************************************************)
MaxTasks == 3

t_OK == <<"O", "K">>
t_FAILED == <<"F", "A", "I", "L", "E", "D">>
t_skip == <<"s", "k", "i", "p">>
t_warning == <<"w", "a", "r", "n", "i", "n", "g">>
t_title == <<"t", "a", "s", "k">>

\* What calling a task does: it returns, or raises Status(msg, color, exc),
\* or raises another exception
Outcome(kind, msg, e) == [kind |-> kind, msg |-> msg, exc |-> e]

Returns == Outcome("", <<>>, "")

Outcomes ==
    {Returns, Outcome("Status", t_skip, ""), Outcome("Status", t_warning, "RuntimeError"),
     Outcome("ValueError", <<>>, ""), Outcome("EOFError", <<>>, ""),
     Outcome("KeyboardInterrupt", <<>>, "")}

Weights == {2}

TaskTuples ==
    {<<t_title, o>> : o \in Outcomes} \cup {<<t_title, o, w>> : o \in Outcomes, w \in Weights}

TaskLists == UNION {[1..n -> TaskTuples] : n \in 0..MaxTasks}

\* str.upper, and str.center for an even width
Upper(c) ==
    IF c \in Range(LowerLetters)
    THEN UpperLetters[CHOOSE i \in DOMAIN LowerLetters : LowerLetters[i] = c]
    ELSE c

upper(s) == [i \in DOMAIN s |-> Upper(s[i])]

center(s, width) ==
    IF Len(s) >= width THEN s
    ELSE Spaces((width - Len(s)) \div 2) \o s
         \o Spaces((width - Len(s)) - (width - Len(s)) \div 2)

\* print_status: msg[:6].upper().center(6), the text between the brackets
print_status(msg) == center(upper(UpTo(msg, 6)), 6)

Event(ev, task, text) == [ev |-> ev, task |-> task, text |-> text]

\* task[2] if len(task) > 2 else 1
WeightOf(task) == IF Len(task) > 2 THEN task[3] ELSE 1

StatusShown_always(e) ==
    IF e.kind = "" THEN <<print_status(t_OK)>>
    ELSE IF e.kind = "Status" THEN <<print_status(e.msg)>>
    ELSE <<print_status(t_FAILED)>>

\* display_status: the statuses it prints for what the block raised
StatusShown(e) ==
    IF e.kind = "" THEN <<print_status(t_OK)>>
    ELSE IF e.kind = "Status" THEN <<print_status(e.msg)>>
    ELSE IF e.kind \in {"KeyboardInterrupt", "EOFError"} THEN <<>>
    ELSE <<print_status(t_FAILED)>>

\* display_status: the exception that leaves it
Leaves(e) ==
    IF e.kind = "Status"
    THEN IF e.exc # "" THEN Outcome(e.exc, <<>>, "") ELSE Returns
    ELSE e

not_tasks == <<comment_vars, help_vars, singleton_vars, signal_vars, rest_vars>>

TaskInit ==
    /\ pc = "tasks"
    /\ k_tasks \in TaskLists
    /\ k_next = 0
    /\ k_out = <<>>
    /\ k_progress = 0
    /\ k_exc = Returns
    /\ CommentIdle /\ HelpIdle /\ SingletonIdle /\ SignalIdle
    /\ RestIdle

\* timed_display: the header is printed
PrintHeader ==
    /\ pc = "tasks"
    /\ k_out' = Append(k_out, Event("header", 0, <<>>))
    /\ k_next' = 1
    /\ pc' = IF k_tasks = <<>> THEN "footer" ELSE "title"
    /\ UNCHANGED <<k_tasks, k_progress, k_exc, not_tasks>>

\* print_message(task[0])
PrintMessage ==
    /\ pc = "title"
    /\ k_out' = Append(k_out, Event("title", k_next, k_tasks[k_next][1]))
    /\ pc' = "task"
    /\ UNCHANGED <<k_tasks, k_next, k_progress, k_exc, not_tasks>>

\* task[1]()
RunTask ==
    /\ pc = "task"
    /\ k_exc' = k_tasks[k_next][2]
    /\ pc' = "update"
    /\ UNCHANGED <<k_tasks, k_next, k_out, k_progress, not_tasks>>

\* finally: pbar.update(...)
UpdateBar ==
    /\ pc = "update"
    /\ k_progress' = k_progress + WeightOf(k_tasks[k_next])
    /\ pc' = "status"
    /\ UNCHANGED <<k_tasks, k_next, k_out, k_exc, not_tasks>>

\* The block of display_status ends: a status is printed, and the loop goes
\* on unless an exception leaves
DisplayStatus ==
    /\ pc = "status"
    /\ k_out' = k_out \o [i \in DOMAIN StatusShown(k_exc) |->
                            Event("status", k_next, StatusShown(k_exc)[i])]
    /\ k_exc' = Leaves(k_exc)
    /\ IF Leaves(k_exc) = Returns /\ k_next < Len(k_tasks)
       THEN k_next' = k_next + 1 /\ pc' = "title"
       ELSE k_next' = k_next /\ pc' = "footer"
    /\ UNCHANGED <<k_tasks, k_progress, not_tasks>>

\* timed_display, finally: the footer is printed; what is in flight reaches
\* the caller
PrintFooter ==
    /\ pc = "footer"
    /\ k_out' = Append(k_out, Event("footer", 0, <<>>))
    /\ pc' = "tasks_done"
    /\ UNCHANGED <<k_tasks, k_next, k_progress, k_exc, not_tasks>>

TaskNext ==
    \/ PrintHeader
    \/ PrintMessage
    \/ RunTask
    \/ UpdateBar
    \/ DisplayStatus
    \/ PrintFooter

TaskSpec == TaskInit /\ [][TaskNext]_vars

\* The exception of an outcome that reaches the caller of run_tasks: none
\* for a task that returns or raises a Status without exception
Reaches(o) ==
    IF o.kind = "Status" /\ o.exc = "" THEN Returns
    ELSE IF o.kind = "Status" THEN Outcome(o.exc, <<>>, "")
    ELSE o

\* The number of tasks that are started: all up to the first whose
\* exception reaches the caller
Started ==
    IF \E i \in DOMAIN k_tasks : Reaches(k_tasks[i][2]) # Returns
    THEN CHOOSE i \in DOMAIN k_tasks :
            /\ Reaches(k_tasks[i][2]) # Returns
            /\ \A j \in 1..(i - 1) : Reaches(k_tasks[j][2]) = Returns
    ELSE Len(k_tasks)

RECURSIVE SumWeights(_, _)
SumWeights(tasks, n) ==
    IF n = 0 THEN 0
    ELSE (IF Len(tasks[n]) = 3 THEN tasks[n][3] ELSE 1) + SumWeights(tasks, n - 1)

\* The status of an outcome: OK, the custom status in six upper case
\* characters, or FAILED
StatedStatus(o) ==
    IF o.kind = "" THEN <<<<" ", " ", "O", "K", " ", " ">>>>
    ELSE IF o.kind = "Status" /\ o.msg = t_skip THEN <<<<" ", "S", "K", "I", "P", " ">>>>
    ELSE IF o.kind = "Status" THEN <<<<"W", "A", "R", "N", "I", "N">>>>
    ELSE <<<<"F", "A", "I", "L", "E", "D">>>>

\* The same, with no status for KeyboardInterrupt and EOFError
AmendedStatus(o) ==
    IF o.kind \in {"KeyboardInterrupt", "EOFError"} THEN <<>> ELSE StatedStatus(o)

\* What is printed for one task, given the statuses of its outcome
Shown(i, statuses) ==
    <<Event("title", i, k_tasks[i][1])>>
    \o [n \in DOMAIN statuses |-> Event("status", i, statuses[n])]

\* What run_tasks and its caller see at the end, given the statuses printed
\* for each outcome
Ran(statuses(_)) ==
    /\ k_out = <<Event("header", 0, <<>>)>>
               \o Concat([i \in 1..Started |-> Shown(i, statuses(k_tasks[i][2]))])
               \o <<Event("footer", 0, <<>>)>>
    /\ k_exc = (IF Started = 0 THEN Returns ELSE Reaches(k_tasks[Started][2]))
    /\ k_progress = SumWeights(k_tasks, Started)

\* C28 as stated: the tasks are started in order up to the first one that
\* raises something other than a Status without exception; for each started
\* task one status is printed, OK, the custom status or FAILED; the
\* exception reaches the caller, the bar is advanced for each started task
\* and the footer is printed.
C28_OneStatusPerTask == pc = "tasks_done" => Ran(StatedStatus)

\* C28, amended: as stated, but no status is printed for a task that raises
\* KeyboardInterrupt or EOFError.
C28_StatusUnlessCancelled == pc = "tasks_done" => Ran(AmendedStatus)

\* A run that was stopped by the EOFError of its second task
C28_Witness ==
    /\ pc = "tasks_done"
    /\ Started = 2
    /\ k_exc.kind = "EOFError"
    /\ Len(k_tasks) > 2

(***************************************************************************)
(* rcli/log.py: enable_logging and SIGTERM.  User code may have installed   *)
(* a handler, or ignored the signal, before enable_logging is called.  A    *)
(* record is kept as the number of its level.                               *)
(***************************************************************************)
MaxRecords == 2
MaxSignals == 2

LevelNo == [DEBUG |-> 10, INFO |-> 20, WARN |-> 30, ERROR |-> 40]

\* What enable_logging is called with: None (0) or a level
LevelArgs == {0, LevelNo.DEBUG, LevelNo.INFO, LevelNo.WARN, LevelNo.ERROR}

Dispositions == {"SIG_DFL", "SIG_IGN", "user"}

Status(exited, code) == [exited |-> exited, code |-> code]

not_signal == <<comment_vars, help_vars, singleton_vars, task_vars, rest_vars>>

SignalInit ==
    /\ pc = "start"
    /\ g_disposition \in Dispositions
    /\ g_initial = g_disposition
    /\ g_disk \in BOOLEAN
    /\ g_level = 0
    /\ g_stream = <<>>
    /\ g_files = <<>>
    /\ g_status = Status(FALSE, 0)
    /\ g_signals = 0
    /\ CommentIdle /\ HelpIdle /\ SingletonIdle /\ TaskIdle
    /\ RestIdle

\* A logger passes a record on when its level is not below the logger's
Emit(stream, root_level, level) ==
    IF level >= root_level THEN Append(stream, level) ELSE stream

\* log.enable_logging(log_level)
EnableLogging ==
    /\ pc = "start"
    /\ ~g_status.exited
    /\ \E level \in LevelArgs :
          g_level' = IF level # 0 THEN level ELSE LevelNo.DEBUG
    /\ g_initial' = g_disposition
    /\ g_disposition' = IF g_disposition = "SIG_DFL" THEN "rcli" ELSE g_disposition
    /\ pc' = "running"
    /\ UNCHANGED <<g_disk, g_stream, g_files, g_status, g_signals, not_signal>>

\* The program logs a record
LogRecord ==
    /\ pc = "running"
    /\ ~g_status.exited
    /\ Len(g_stream) < MaxRecords
    /\ \E level \in {LevelNo.DEBUG, LevelNo.ERROR} :
          g_stream' = Emit(g_stream, g_level, level)
    /\ UNCHANGED <<pc, g_disposition, g_initial, g_disk, g_level, g_files, g_status,
                   g_signals, not_signal>>

Arrives ==
    /\ ~g_status.exited
    /\ g_signals < MaxSignals
    /\ g_signals' = g_signals + 1

\* SIGTERM with the default disposition: the process is terminated
SigtermDefault ==
    /\ Arrives
    /\ g_disposition = "SIG_DFL"
    /\ g_status' = Status(TRUE, -15)
    /\ UNCHANGED <<pc, g_disposition, g_initial, g_disk, g_level, g_stream, g_files,
                   not_signal>>

\* SIGTERM while it is ignored
SigtermIgnored ==
    /\ Arrives
    /\ g_disposition = "SIG_IGN"
    /\ UNCHANGED <<pc, g_disposition, g_initial, g_disk, g_level, g_stream, g_files,
                   g_status, not_signal>>

\* SIGTERM with the handler of the user, which returns or exits
SigtermUser ==
    /\ Arrives
    /\ g_disposition = "user"
    /\ \E exits \in BOOLEAN :
          g_status' = IF exits THEN Status(TRUE, 15) ELSE g_status
    /\ UNCHANGED <<pc, g_disposition, g_initial, g_disk, g_level, g_stream, g_files,
                   not_signal>>

\* log._logfile_sigterm_handler: the error is logged, write_logfile writes
\* the stream or raises IOError, and sys.exit(signal), given the module and
\* no number, ends the process with status 1; so does the IOError
LogfileSigtermHandler ==
    /\ Arrives
    /\ g_disposition = "rcli"
    /\ g_stream' = Emit(g_stream, g_level, LevelNo.ERROR)
    /\ g_files' = IF g_disk THEN Append(g_files, g_stream') ELSE g_files
    /\ g_status' = Status(TRUE, 1)
    /\ UNCHANGED <<pc, g_disposition, g_initial, g_disk, g_level, not_signal>>

SignalNext ==
    \/ EnableLogging
    \/ LogRecord
    \/ SigtermDefault
    \/ SigtermIgnored
    \/ SigtermUser
    \/ LogfileSigtermHandler

SignalSpec == SignalInit /\ [][SignalNext]_vars

\* C24: enable_logging installs its handler only over the default
\* disposition and leaves a handler of the user in place; with a handler of
\* the user no log file is written when SIGTERM arrives; with the handler of
\* enable_logging, SIGTERM writes the log file and the process ends with a
\* status other than 0.
C24_SigtermLogFile ==
    /\ pc = "running" =>
          g_disposition = (IF g_initial = "SIG_DFL" THEN "rcli" ELSE g_initial)
    /\ g_initial # "SIG_DFL" => g_files = <<>>
    /\ (g_disposition = "rcli" /\ g_signals > 0) =>
          /\ g_status.exited
          /\ g_status.code # 0
          /\ Len(g_files) = 1
          /\ LevelNo.ERROR \in Range(g_files[1])

====
